---------------------------- MODULE Spec2Model ----------------------------
(***************************************************************************)
(* A model of the range-lookup index engine of rgip: the sorted range      *)
(* table and its binary search, the framed binary codec, the sharded       *)
(* index, the expiring (EvilIP) table and the lock-protected hot reload.   *)
(*                                                                         *)
(* The repository holds several historical variants of the same engine.    *)
(* Each section below names the variant (file and function) it models.    *)
(***************************************************************************)
EXTENDS Integers, Sequences, FiniteSets, TLC

VARIABLES
    \* ---- range table lookups (ipRangeList, the sharded index) ----
    lpc,        \* position of the lookup harness
    tbl,        \* the flat table, an ipRangeList
    ip32,       \* the address looked up
    ret,        \* what ipRangeList.lookup returned
    shards,     \* the sharded index built from tbl
    sret,       \* what the sharded lookup returned
    \* ---- expiring table (badIPRangeList, evilIPList) ----
    epc,        \* position of the expiring-lookup harness
    evil,       \* evilIPList.badIPRanges.ranges, a slice of badIPRange
    now,        \* time.Now() as read by the lookup
    eip,        \* the address looked up
    bret,       \* what badIPRangeList.lookup returned
    eret,       \* what evilIPList.lookup returned
    \* ---- binary codec (writeBinary, loadIPRangesFromBinary) ----
    cpc,        \* position of the codec harness
    ctbl,       \* the ranges handed to writeBinary
    file,       \* the bytes of the file
    dec,        \* what loadIPRangesFromBinary or mmapIpRanges returned
    fhist,      \* history: the host's byte order, who wrote the file, how it
                \* was damaged since, who loaded it
    \* ---- CSV loading (loadIPRangesFromCSV, openIPRanges) ----
    kpc,        \* position of the CSV harness
    records,    \* the records of the CSV file, each a list of fields
    kby,        \* history: which builder read the file
    kbuilt,     \* what the builder returned
    kpub,       \* the slice published in the index (ipRanges.ranges)
    kip,        \* the address looked up
    kret,       \* what the lookup on the built table returned
    \* ---- the EvilIP rows (loadEvilIP) ----
    dpc,        \* position of the EvilIP harness
    drows,      \* the rows of the EvilIP query, each an ip and a subnet size
    dbuilt,     \* what loadEvilIP returned
    dip,        \* the address looked up
    dret,       \* what the lookup on the table returned
    \* ---- main and its reload goroutine (main) ----
    mvar,       \* which main this is: the one that ranges over a buffered channel, or the one that selects
    mpc,        \* where main is
    gpc,        \* where the reload goroutine is
    sigs,       \* the signals the channel holds, each marked with the reload it arrived during
    sh,         \* history: signals delivered, reloads started, and what each reload received and caused
    \* ---- loadDataFiles and its sources (data) ----
    fcfg,       \* the command line: lite, ufi and nexthop files configured or not
    fpub,       \* the version each source publishes, 0 before any load
    fprev,      \* what each source published before the last call
    fout,       \* which loads of the last call succeed
    ferr,       \* the error the last call returned
    fcalls,     \* the calls made
    \* ---- lookupIPInfo (info) ----
    irev,       \* the revision of lookupIPInfo
    ipc,        \* where the call is
    itext,      \* the textual address
    iufis,      \* the UFI index: nil or its table
    iret,       \* what the call returned and how it consulted the index
    \* ---- the published index and its goroutines (ipRanges, evilIPList) ----
    ranges,     \* the published slice: ufis.ranges, or EvilIPs.ranges
    ver,        \* history: how many times ranges has been assigned
    mu,         \* the index's sync.RWMutex
    pc,         \* where each goroutine is
    loc,        \* each lookup's argument, what it has read so far, its result
    rl,         \* the reload goroutine's locals
    log         \* the lines the reload goroutine has logged

lookupVars == <<lpc, tbl, ip32, ret, shards, sret>>
evilVars   == <<epc, evil, now, eip, bret, eret>>
codecVars  == <<cpc, ctbl, file, dec, fhist>>
concVars   == <<ranges, ver, mu, pc, loc, rl, log>>
csvVars    == <<kpc, records, kby, kbuilt, kpub, kip, kret>>
subnetVars == <<dpc, drows, dbuilt, dip, dret>>
mainVars == <<mvar, mpc, gpc, sigs, sh>>
dataVars == <<fcfg, fpub, fprev, fout, ferr, fcalls>>
infoVars == <<irev, ipc, itext, iufis, iret>>
lateVars   == <<subnetVars, mainVars, dataVars, infoVars>>
seqVars    == <<lookupVars, evilVars, codecVars, csvVars, lateVars>>
vars       == <<lookupVars, evilVars, codecVars, csvVars, concVars, lateVars>>
earlyVars  == <<lookupVars, evilVars, codecVars, csvVars, concVars>>
\* what the actions of one late group leave alone
notSubnetVars == <<earlyVars, mainVars, dataVars, infoVars>>
notMainVars   == <<earlyVars, subnetVars, dataVars, infoVars>>
notDataVars   == <<earlyVars, subnetVars, mainVars, infoVars>>
notInfoVars   == <<earlyVars, subnetVars, mainVars, dataVars>>

---------------------------------------------------------------------------
(* Bounds of the model *)

\* longest table drawn as an input
MaxLen == 2
\* latest instant drawn for time.Now() and for an entry's expiry
MaxTime == 2
\* how many reloads the reload goroutine is followed through
MaxReloads == 2

---------------------------------------------------------------------------
(* Value domains *)

None == "none"

\* a Go slice value: whether it is nil, and its elements (a nil slice has none)
NilSlice == [isNil |-> TRUE, elems |-> <<>>]
Slice(r) == [isNil |-> FALSE, elems |-> r]

(* A uint32 is held as its two 16-bit halves <<hi, lo>>, most significant  *)
(* first: its value is hi * 2^16 + lo.  (TLC's own integers are signed     *)
(* 32-bit and cannot hold the upper half of the uint32 range.)             *)
Half == 2^16
U32(hi, lo) == <<hi, lo>>
U32Lt(a, b) == a[1] < b[1] \/ (a[1] = b[1] /\ a[2] < b[2])
U32Le(a, b) == a = b \/ U32Lt(a, b)
\* a + 1 in uint32 arithmetic (wraps to 0)
U32Inc(a) ==
    IF a[2] + 1 < Half THEN <<a[1], a[2] + 1>> ELSE <<(a[1] + 1) % Half, 0>>
U32Zero == U32(0, 0)
U32Max  == U32(Half - 1, Half - 1)

\* 32-bit addresses drawn as inputs: 0, 1, 2, both sides of the first
\* most-significant-byte boundary (2^24 - 1 and 2^24), and 2^32 - 1
AddrSamples ==
    {U32(0, 0), U32(0, 1), U32(0, 2), U32(255, Half - 1), U32(256, 0), U32Max}

\* int32 payloads drawn as inputs
DataSamples == {-1, 20107093}

\* the entries drawn as inputs: ranges [rangeFrom, rangeTo] with a payload
ipRange ==
    {e \in [rangeFrom : AddrSamples, rangeTo : AddrSamples, data : DataSamples] :
        U32Le(e.rangeFrom, e.rangeTo)}

\* sequences over S of length 0..n
SeqUpTo(S, n) == UNION {[1..k -> S] : k \in 0..n}

\* r is in ascending order of rangeTo, as sort.Sort leaves it
SortedByTo(r) ==
    \A i, j \in 1..Len(r) : i < j => U32Le(r[i].rangeTo, r[j].rangeTo)

\* every entry is a range [from, to] and no two ranges share an address
Disjoint(r) ==
    /\ \A i \in 1..Len(r) : U32Le(r[i].rangeFrom, r[i].rangeTo)
    /\ \A i, j \in 1..Len(r) :
          i # j => \/ U32Lt(r[i].rangeTo, r[j].rangeFrom)
                   \/ U32Lt(r[j].rangeTo, r[i].rangeFrom)

Encloses(e, a) == U32Le(e.rangeFrom, a) /\ U32Le(a, e.rangeTo)

---------------------------------------------------------------------------
(* sort.Search as the standard library computes it: binary search for the  *)
(* smallest index in [0, n) at which the predicate ip32 <= r[i].rangeTo    *)
(* holds, n when there is none.  Indices are 0-based as in Go; r[h + 1] is *)
(* the TLA+ element of Go's r[h].                                          *)

RECURSIVE SearchLoop(_, _, _, _)
SearchLoop(r, a, i, j) ==
    IF i < j
    THEN LET h == (i + j) \div 2
         IN  IF ~U32Le(a, r[h + 1].rangeTo)
             THEN SearchLoop(r, a, h + 1, j)
             ELSE SearchLoop(r, a, i, h)
    ELSE i

sortSearch(r, a) == SearchLoop(r, a, 0, Len(r))

\* the result of a lookup: the values returned, the index inspected, and
\* whether the call ended in a runtime panic (index out of range)
Found(d, i)  == [data |-> d, ok |-> TRUE,  idx |-> i, panic |-> FALSE]
Missing(i)   == [data |-> 0, ok |-> FALSE, idx |-> i, panic |-> FALSE]
Panicked(i)  == [data |-> 0, ok |-> FALSE, idx |-> i, panic |-> TRUE]

\* a plausible slip: the upper bound taken as exclusive
ipRangeListLookupExclusive(r, a) ==
    LET idx == sortSearch(r, a)
    IN  IF /\ idx < Len(r)
           /\ U32Le(r[idx + 1].rangeFrom, a)
           /\ U32Lt(a, r[idx + 1].rangeTo)
        THEN Found(r[idx + 1].data, idx)
        ELSE Missing(idx)

\* ipRangeList.lookup
ipRangeListLookup(r, a) ==
    LET idx == sortSearch(r, a)
    IN  IF /\ idx < Len(r)
           /\ U32Le(r[idx + 1].rangeFrom, a)
           /\ U32Le(a, r[idx + 1].rangeTo)
        THEN Found(r[idx + 1].data, idx)
        ELSE Missing(idx)

---------------------------------------------------------------------------
(* The expiring table: badIPRangeList and evilIPList.  An instant          *)
(* (time.Time) is an integer; time.Time.After is the strict order.         *)

Instants == 0 .. MaxTime
StatusSamples == {"bad", "badder"}

\* the test's address 387534209 = 5913 * 2^16 + 23937 and its neighbours
EvilBase == U32(5913, 23937)
EvilRangeEnds == {EvilBase, U32Inc(EvilBase), U32Inc(U32Inc(U32Inc(EvilBase)))}
EvilAddrSamples ==
    {U32(5913, 23936), EvilBase, U32Inc(EvilBase), U32Inc(U32Inc(EvilBase)),
     U32Inc(U32Inc(U32Inc(EvilBase))), U32Inc(U32Inc(U32Inc(U32Inc(EvilBase))))}

badIPRecord == [status : StatusSamples, expires : Instants]
\* badIPRecord{}, the zero value
ZeroRecord == [status |-> "", expires |-> 0]

badIPRange ==
    {e \in [rangeFrom : EvilRangeEnds, rangeTo : EvilRangeEnds, data : badIPRecord] :
        U32Le(e.rangeFrom, e.rangeTo)}

BadFound(d, i) == [data |-> d, ok |-> TRUE, idx |-> i, panic |-> FALSE]
BadMissing(i)  == [data |-> ZeroRecord, ok |-> FALSE, idx |-> i, panic |-> FALSE]
BadPanicked(i) == [data |-> ZeroRecord, ok |-> FALSE, idx |-> i, panic |-> TRUE]

\* badIPRangeList.lookup.  The guard is idx != -1, which sort.Search never
\* returns, so r[idx] is evaluated at idx = len(r) too and panics there
\* (index out of range).
badIPRangeListLookup(r, a) ==
    LET idx == sortSearch(r, a)
    IN  IF idx # -1
        THEN IF idx >= Len(r)
             THEN BadPanicked(idx)
             ELSE IF /\ U32Le(r[idx + 1].rangeFrom, a)
                     /\ U32Le(a, r[idx + 1].rangeTo)
                  THEN BadFound(r[idx + 1].data, idx)
                  ELSE BadMissing(idx)
        ELSE BadMissing(idx)

\* time.Time.After
After(t, u) == t > u

EvilStatus(s) == [status |-> s, panic |-> FALSE]
EvilPanicked  == [status |-> "", panic |-> TRUE]

\* evilIPList.lookup, with t the value of time.Now()
evilIPListLookup(s, a, t) ==
    IF s.isNil THEN EvilStatus("")
    ELSE LET found == badIPRangeListLookup(s.elems, a)
         IN  IF found.panic THEN EvilPanicked
             ELSE IF ~found.ok THEN EvilStatus("")
             ELSE IF After(t, found.data.expires) THEN EvilStatus("")
             ELSE EvilStatus(found.data.status)

---------------------------------------------------------------------------
(* The binary codec.  A file is a sequence of bytes.                       *)

Byte == 0 .. 255

\* magicBytes = "rgipMap\0"
magicBytes == <<114, 103, 105, 112, 77, 97, 112, 0>>

ipRangeSize == 12

\* uint32(d) of an int32 d: the same 32 bits (two's complement)
uint32OfInt32(d) == U32((d \div Half) % Half, d % Half)

\* int32(u) of a uint32 u: the same 32 bits (two's complement)
int32OfUint32(u) ==
    IF u[1] >= Half \div 2 THEN (u[1] - Half) * Half + u[2] ELSE u[1] * Half + u[2]

\* uint32(n) of a small non-negative int
uint32OfLen(n) == U32(n \div Half, n % Half)

\* a plausible slip: the four bytes, most significant first
PutUint32BigEndian(u) == <<u[1] \div 256, u[1] % 256, u[2] \div 256, u[2] % 256>>

\* binary.LittleEndian.PutUint32: the four bytes, least significant first
PutUint32(u) == <<u[2] % 256, u[2] \div 256, u[1] % 256, u[1] \div 256>>

\* binary.LittleEndian.Uint32 of the four bytes of b that follow offset off
LEUint32(b, off) ==
    U32(b[off + 4] * 256 + b[off + 3], b[off + 2] * 256 + b[off + 1])

\* the bytes of one record, as the loop of writeBinary lays them out
putRange(r) ==
    PutUint32(r.rangeFrom) \o PutUint32(r.rangeTo) \o PutUint32(uint32OfInt32(r.data))

RECURSIVE putRanges(_, _)
putRanges(rs, i) ==
    IF i > Len(rs) THEN <<>>
    ELSE putRange(rs[i]) \o putRanges(rs, i + 1)

\* writeBinary: the bytes that reach the file once the writer is flushed
writeBinary(rs) ==
    magicBytes \o PutUint32(uint32OfLen(Len(rs)))
               \o putRanges(rs, 1) \o magicBytes

\* a plausible slip: the eight bytes are read and not compared
readMagicBytesUncompared(b, off) ==
    IF Len(b) < off + Len(magicBytes) THEN "read" ELSE ""

\* the outcome of readMagicBytes at offset off: "" (nil), or the error
readMagicBytes(b, off) ==
    IF Len(b) < off + Len(magicBytes) THEN "read"
    ELSE IF SubSeq(b, off + 1, off + Len(magicBytes)) # magicBytes THEN "format"
    ELSE ""

\* a plausible slip: the halves of the record read in the wrong order
readRangeSwapped(b, off) ==
    [rangeFrom |-> LEUint32(b, off + 4),
     rangeTo   |-> LEUint32(b, off),
     data      |-> int32OfUint32(LEUint32(b, off + 8))]

\* the ipRange built from the 12 bytes of b that follow offset off
readRange(b, off) ==
    [rangeFrom |-> LEUint32(b, off),
     rangeTo   |-> LEUint32(b, off + 4),
     data      |-> int32OfUint32(LEUint32(b, off + 8))]

Loaded(r)    == [ranges |-> Slice(r), err |-> ""]
LoadError(e) == [ranges |-> NilSlice, err |-> e]

\* a plausible slip: the records are read and the footer is not
RECURSIVE readRangesNoFooter(_, _, _, _)
readRangesNoFooter(b, n, i, acc) ==
    LET off == Len(magicBytes) + 4 + i * ipRangeSize
    IN  IF n[1] > 0 \/ i < n[2]
        THEN IF Len(b) < off + ipRangeSize
             THEN LoadError("truncated")
             ELSE readRangesNoFooter(b, n, i + 1, Append(acc, readRange(b, off)))
        ELSE Loaded(acc)

\* the record loop of loadIPRangesFromBinary: i records read so far, of the
\* n (a uint32) the count field declares; then the footer
RECURSIVE readRanges(_, _, _, _)
readRanges(b, n, i, acc) ==
    LET off == Len(magicBytes) + 4 + i * ipRangeSize
    IN  IF n[1] > 0 \/ i < n[2]
        THEN IF Len(b) < off + ipRangeSize
             THEN LoadError("truncated")
             ELSE readRanges(b, n, i + 1, Append(acc, readRange(b, off)))
        ELSE LET footer == readMagicBytes(b, off)
             IN  IF footer # "" THEN LoadError(footer) ELSE Loaded(acc)

\* loadIPRangesFromBinary
loadIPRangesFromBinary(b) ==
    LET header == readMagicBytes(b, 0)
    IN  IF header # "" THEN LoadError(header)
        ELSE IF Len(b) < Len(magicBytes) + 4 THEN LoadError("size")
        ELSE readRanges(b, LEUint32(b, Len(magicBytes)), 0, <<>>)

---------------------------------------------------------------------------
(* The sharded index.  shard() and the sharded lookup are not among the    *)
(* source files (only their callers in the tests are); they are modelled   *)
(* from section 4.4 of the specification: one sub-table per value of the   *)
(* address's most-significant byte, each entry placed, in table order, in  *)
(* every shard its range overlaps.                                         *)

NumShards == 256
ShardKeys == 0 .. (NumShards - 1)

\* the shard key of an address: its most-significant byte
shardKey(a) == a[1] \div 256

RECURSIVE SelectShard(_, _, _)
SelectShard(r, k, i) ==
    IF i > Len(r) THEN <<>>
    ELSE IF shardKey(r[i].rangeFrom) <= k /\ k <= shardKey(r[i].rangeTo)
         THEN <<r[i]>> \o SelectShard(r, k, i + 1)
         ELSE SelectShard(r, k, i + 1)

\* a plausible slip: each entry placed only in the shard of its first address
shardByFromOnly(r) ==
    [k \in ShardKeys |-> SelectSeq(r, LAMBDA e : shardKey(e.rangeFrom) = k)]

\* ipRangeList.shard
shard(r) == [k \in ShardKeys |-> SelectShard(r, k, 1)]

\* the sharded index's lookup: delegate to the shard of the address
shardsLookup(s, a) == ipRangeListLookup(s[shardKey(a)], a)

---------------------------------------------------------------------------
(* Loading a table for a reload.                                           *)

\* a file on disk: whether os.Open finds it, and its bytes
MissingFile == [exists |-> FALSE, bytes |-> <<>>]
FileOf(b)   == [exists |-> TRUE, bytes |-> b]

\* loadIPRanges(fname, isbinary) with isbinary set
loadIPRanges(f) ==
    IF ~f.exists THEN LoadError("open") ELSE loadIPRangesFromBinary(f.bytes)

\* a plausible slip: the loaded slice published whether or not the load failed
publishesAlways(res) == TRUE

\* the test `if e != nil { log } else { publish }` of the reload paths
publishes(res) == res.err = ""

---------------------------------------------------------------------------
(* The mapped loader of src/ipRange.go: writeMmap dumps the memory of the  *)
(* slice to a file and mmapIpRanges maps the file and reinterprets its     *)
(* bytes as a []ipRange.  The bytes of a word in memory are in the host's  *)
(* order.                                                                  *)

Hosts == {"le", "be"}

\* the four bytes of a uint32 in the host's memory
hostBytes(host, u) ==
    IF host = "le" THEN PutUint32(u)
    ELSE <<u[1] \div 256, u[1] % 256, u[2] \div 256, u[2] % 256>>

\* the uint32 the host reads in the four bytes of b that follow offset off
hostUint32(host, b, off) ==
    IF host = "le" THEN LEUint32(b, off)
    ELSE U32(b[off + 1] * 256 + b[off + 2], b[off + 3] * 256 + b[off + 4])

\* unsafe.Sizeof(ipRange{}): two uint32 and an int32
sizeofIpRange == 12

\* reflectByteSlice: the memory of the rows from index i on
RECURSIVE reflectByteSlice(_, _, _)
reflectByteSlice(host, rows, i) ==
    IF i > Len(rows) THEN <<>>
    ELSE hostBytes(host, rows[i].rangeFrom) \o hostBytes(host, rows[i].rangeTo)
         \o hostBytes(host, uint32OfInt32(rows[i].data))
         \o reflectByteSlice(host, rows, i + 1)

\* writeMmap: ioutil.WriteFile(filename, reflectByteSlice(ranges), 0644)
writeMmap(host, rs) == reflectByteSlice(host, rs, 1)

\* the ipRange the host sees in the bytes of b that follow offset off
rowAt(host, b, off) ==
    [rangeFrom |-> hostUint32(host, b, off),
     rangeTo   |-> hostUint32(host, b, off + 4),
     data      |-> int32OfUint32(hostUint32(host, b, off + 8))]

\* a plausible slip (the loader's earlier form): no test of the length, the
\* division rounds down
reflectIpRangeRowsUnchecked(host, b) ==
    Loaded([i \in 1 .. (Len(b) \div sizeofIpRange) |->
                rowAt(host, b, (i - 1) * sizeofIpRange)])

\* reflectIpRangeRows
reflectIpRangeRows(host, b) ==
    IF Len(b) % sizeofIpRange # 0 THEN LoadError("multiple")
    ELSE Loaded([i \in 1 .. (Len(b) \div sizeofIpRange) |->
                     rowAt(host, b, (i - 1) * sizeofIpRange)])

\* mmap.Map(file, mmap.RDONLY, 0) maps the whole file; the mmap system call
\* refuses a length of zero (EINVAL)
mmapMap(b) == IF Len(b) = 0 THEN "mmap" ELSE ""

\* mmapIpRanges
mmapIpRanges(host, f) ==
    IF ~f.exists THEN LoadError("open")
    ELSE IF mmapMap(f.bytes) # "" THEN LoadError(mmapMap(f.bytes))
    ELSE reflectIpRangeRows(host, f.bytes)

---------------------------------------------------------------------------
(* The goroutines around a published index.                                *)
(*                                                                         *)
(* L1, L2  callers of ipRanges.lookup (RLock) on the UFI table             *)
(* E       a caller of evilIPList.lookup, which takes no lock              *)
(* M       a caller of the older EvilIPList.lookup: nil check, then Lock   *)
(* B1, B2  callers of badIPRanges.lookup (Lock)                            *)
(* R       the reload goroutine started by main                            *)
(*                                                                         *)
(* A slice is three words (pointer, length, capacity).  Copying one, as    *)
(* r.lookup(ip32) does for its receiver, reads the pointer and the length  *)
(* in two steps; only a lock makes the copy atomic.  ver counts the        *)
(* assignments to ranges, so that each read records which published table  *)
(* it saw.                                                                 *)

NoProc == "-"
Reloader == "R"
UfiLookups == {"L1", "L2"}
UnlockedEvilLookups == {"E"}
OldEvilLookups == {"M"}
BadLookups == {"B1", "B2"}
EvilLookups == UnlockedEvilLookups \cup OldEvilLookups \cup BadLookups
Lookups == UfiLookups \cup EvilLookups
Procs == Lookups \cup {Reloader}

\* a sync.RWMutex: the goroutine holding it for writing, the goroutine whose
\* Lock() has been announced and waits for the readers to leave, the readers
Unlocked == [writer |-> NoProc, pending |-> NoProc, readers |-> {}]
\* RLock returns at once unless a writer holds the mutex or has announced itself
CanRLock == mu.writer = NoProc /\ mu.pending = NoProc
\* Lock first excludes the other writers
CanLockBegin == mu.writer = NoProc /\ mu.pending = NoProc
\* and then waits until the readers have left
CanLockAcquire(p) == mu.pending = p /\ mu.readers = {}
Holds(p) == mu.writer = p \/ p \in mu.readers

NoResult == [none |-> TRUE]
NoLocals ==
    [ip |-> U32Zero, vNil |-> -1, vPtr |-> -1, vLen |-> -1,
     snap |-> NilSlice, t |-> 0, later |-> 0, res |-> NoResult]

\* ipRangeList.lookup of the older main.go, which EvilIPList.lookup calls:
\* guarded by idx != -1 only, it indexes r[len(r)] and panics there
mainIpRangeListLookup(r, a) ==
    LET idx == sortSearch(r, a)
    IN  IF idx # -1
        THEN IF idx >= Len(r)
             THEN BadPanicked(idx)
             ELSE IF /\ U32Le(r[idx + 1].rangeFrom, a)
                     /\ U32Le(a, r[idx + 1].rangeTo)
                  THEN BadFound(r[idx + 1].data, idx)
                  ELSE BadMissing(idx)
        ELSE BadMissing(idx)

\* the search each lookup runs on its copy of the slice
searchOf(p, r, a) ==
    IF p \in UfiLookups THEN ipRangeListLookup(r, a)
    ELSE IF p \in OldEvilLookups THEN mainIpRangeListLookup(r, a)
    ELSE badIPRangeListLookup(r, a)

\* what r.lookup(a) can return when the receiver's pointer was copied from
\* the slice `old` and its length from the slice `new`.  With no assignment
\* between the two reads the slices are one.  Otherwise the search runs over
\* old's array cut to new's length, and when that length exceeds the array it
\* reads past its end: the outcomes of that are left open (a value found in
\* the old array, or a crash).
ReadOutcomes(p, old, new, torn, a) ==
    IF ~torn THEN {searchOf(p, old.elems, a)}
    ELSE IF Len(new.elems) <= Len(old.elems)
         THEN {searchOf(p, SubSeq(old.elems, 1, Len(new.elems)), a)}
         ELSE {searchOf(p, old.elems, a),
               IF p \in UfiLookups THEN Panicked(0) ELSE BadPanicked(0)}

\* the rest of evilIPList.lookup once the search has returned `found`
evilStatusOf(found, t) ==
    IF found.panic THEN EvilPanicked
    ELSE IF ~found.ok THEN EvilStatus("")
    ELSE IF After(t, found.data.expires) THEN EvilStatus("")
    ELSE EvilStatus(found.data.status)

\* ---- the lookups ----

\* the state of the last reload, as a lookup that starts now finds it: the
\* reload's number when it has failed and nothing has started since, else 0
FailedReload ==
    IF rl.err # "" /\ pc[Reloader] \in {"return", "sigwait", "tickwait"}
    THEN rl.n ELSE 0

\* a handler calls lookup(a)
LookupCall(p, a) ==
    /\ pc[p] \in {"idle", "done"}
    /\ loc' = [loc EXCEPT ![p] = [NoLocals EXCEPT !.ip = a, !.later = FailedReload]]
    /\ pc' = [pc EXCEPT ![p] =
                 IF p \in UfiLookups THEN "rlock"
                 ELSE IF p \in BadLookups THEN "lock"
                 ELSE "nilcheck"]
    /\ UNCHANGED <<ranges, ver, mu, rl, log, seqVars>>

\* ipr.RLock()
LookupRLock(p) ==
    /\ pc[p] = "rlock"
    /\ CanRLock
    /\ mu' = [mu EXCEPT !.readers = @ \cup {p}]
    /\ pc' = [pc EXCEPT ![p] = "read1"]
    /\ UNCHANGED <<ranges, ver, loc, rl, log, seqVars>>

\* if evil.ranges == nil { return "" }: read without the lock
LookupNilCheck(p) ==
    /\ pc[p] = "nilcheck"
    /\ IF ranges.isNil
       THEN /\ loc' = [loc EXCEPT ![p].vNil = ver, ![p].res = EvilStatus("")]
            /\ pc' = [pc EXCEPT ![p] = "done"]
       ELSE /\ loc' = [loc EXCEPT ![p].vNil = ver]
            /\ pc' = [pc EXCEPT ![p] = IF p \in OldEvilLookups THEN "lock" ELSE "read1"]
    /\ UNCHANGED <<ranges, ver, mu, rl, log, seqVars>>

\* ipr.Lock() / evil.Lock(), first half: the other writers are excluded
LookupLockBegin(p) ==
    /\ pc[p] = "lock"
    /\ CanLockBegin
    /\ mu' = [mu EXCEPT !.pending = p]
    /\ pc' = [pc EXCEPT ![p] = "lockwait"]
    /\ UNCHANGED <<ranges, ver, loc, rl, log, seqVars>>

\* ipr.Lock() / evil.Lock(), second half: the readers have left
LookupLockAcquire(p) ==
    /\ pc[p] = "lockwait"
    /\ CanLockAcquire(p)
    /\ mu' = [mu EXCEPT !.pending = NoProc, !.writer = p]
    /\ pc' = [pc EXCEPT ![p] = "read1"]
    /\ UNCHANGED <<ranges, ver, loc, rl, log, seqVars>>

\* the receiver of r.lookup(ip32) is copied: its pointer
LookupReadPtr(p) ==
    /\ pc[p] = "read1"
    /\ loc' = [loc EXCEPT ![p].vPtr = ver, ![p].snap = ranges]
    /\ pc' = [pc EXCEPT ![p] = "read2"]
    /\ UNCHANGED <<ranges, ver, mu, rl, log, seqVars>>

\* the receiver is copied: its length; then the search runs on the copy, and
\* the expiring lookups compare the entry's expiry with time.Now()
LookupReadLen(p, t) ==
    /\ pc[p] = "read2"
    /\ LET torn == loc[p].vPtr # ver
           old  == loc[p].snap
           a    == loc[p].ip
       IN  \E found \in ReadOutcomes(p, old, ranges, torn, a) :
              loc' = [loc EXCEPT ![p].vLen = ver,
                                 ![p].t = IF p \in UfiLookups \cup BadLookups THEN 0 ELSE t,
                                 ![p].res = IF p \in UfiLookups \cup BadLookups
                                            THEN found
                                            ELSE evilStatusOf(found, t)]
    /\ pc' = [pc EXCEPT ![p] =
                 IF p \in UfiLookups THEN "runlock"
                 ELSE IF p \in UnlockedEvilLookups THEN "done"
                 ELSE "unlock"]
    /\ UNCHANGED <<ranges, ver, mu, rl, log, seqVars>>

\* defer ipr.RUnlock()
LookupRUnlock(p) ==
    /\ pc[p] = "runlock"
    /\ mu' = [mu EXCEPT !.readers = @ \ {p}]
    /\ pc' = [pc EXCEPT ![p] = "done"]
    /\ UNCHANGED <<ranges, ver, loc, rl, log, seqVars>>

\* a plausible slip: Unlock() called after the search instead of deferred,
\* so that a search that panics leaves the lock held
LookupUnlockNotDeferred(p) ==
    /\ pc[p] = "unlock"
    /\ mu' = IF loc[p].res.panic THEN mu ELSE [mu EXCEPT !.writer = NoProc]
    /\ pc' = [pc EXCEPT ![p] = "done"]
    /\ UNCHANGED <<ranges, ver, loc, rl, log, seqVars>>

\* defer ipr.Unlock() / defer evil.Unlock(): it runs when the search panicked too
LookupUnlock(p) ==
    /\ pc[p] = "unlock"
    /\ mu' = [mu EXCEPT !.writer = NoProc]
    /\ pc' = [pc EXCEPT ![p] = "done"]
    /\ UNCHANGED <<ranges, ver, loc, rl, log, seqVars>>

---------------------------------------------------------------------------
(* Specification SpecLookup: a table is drawn, then looked up.             *)

\* the tables drawn: every sequence of entries, in ascending order of
\* rangeTo as the builders leave them
Tables == {r \in SeqUpTo(ipRange, MaxLen) : SortedByTo(r)}

\* a file nobody has written yet, on a little-endian host
NoHistory ==
    [host |-> "le", writer |-> "none", damage |-> "none", at |-> 0, loader |-> "none"]

InitSubnetIdle ==
    /\ dpc = "off" /\ drows = <<>> /\ dbuilt = None /\ dip = U32Zero /\ dret = None

InitMainIdle ==
    /\ mvar = None /\ mpc = "off" /\ gpc = "off" /\ sigs = <<>> /\ sh = None

InitDataIdle ==
    /\ fcfg = None /\ fpub = None /\ fprev = None /\ fout = None /\ ferr = None /\ fcalls = 0

InitInfoIdle ==
    /\ irev = None /\ ipc = "off" /\ itext = None /\ iufis = None /\ iret = None

InitLateIdle == InitSubnetIdle /\ InitMainIdle /\ InitDataIdle /\ InitInfoIdle

InitEvilIdle ==
    /\ epc = "off" /\ evil = NilSlice /\ now = 0 /\ eip = U32Zero
    /\ bret = None /\ eret = None

InitCodecIdle ==
    /\ cpc = "off" /\ ctbl = <<>> /\ file = <<>> /\ dec = None
    /\ fhist = NoHistory

InitCsvIdle ==
    /\ kpc = "off" /\ records = <<>> /\ kby = None /\ kbuilt = None
    /\ kpub = NilSlice /\ kip = U32Zero /\ kret = None

InitLookupIdle ==
    /\ lpc = "off" /\ tbl = <<>> /\ ip32 = U32Zero /\ ret = None
    /\ shards = None /\ sret = None

NoLoad == [ranges |-> NilSlice, err |-> ""]
NoReload == [n |-> 0, res |-> NoLoad, err |-> "", before |-> NilSlice, verBefore |-> 0]

InitConcIdle ==
    /\ ranges = NilSlice /\ ver = 0 /\ mu = Unlocked
    /\ pc = [p \in Procs |-> "off"]
    /\ loc = [p \in Lookups |-> NoLocals]
    /\ rl = NoReload
    /\ log = <<>>

InitEarlyIdle ==
    /\ InitLookupIdle /\ InitEvilIdle /\ InitCodecIdle /\ InitCsvIdle
    /\ InitConcIdle

InitLookup ==
    /\ lpc = "built"
    /\ tbl \in Tables
    /\ ip32 = U32Zero /\ ret = None /\ shards = None /\ sret = None
    /\ InitEvilIdle
    /\ InitCodecIdle
    /\ InitCsvIdle
    /\ InitConcIdle
    /\ InitLateIdle

\* r.lookup(a) on the flat table
Lookup(a) ==
    /\ lpc = "built"
    /\ ip32' = a
    /\ ret' = ipRangeListLookup(tbl, a)
    /\ lpc' = "looked"
    /\ UNCHANGED <<tbl, shards, sret, evilVars, codecVars, csvVars, concVars, lateVars>>

\* shards, err := ranges.shard()
Shard ==
    /\ lpc = "built"
    /\ shards' = shard(tbl)
    /\ lpc' = "sharded"
    /\ UNCHANGED <<tbl, ip32, ret, sret, evilVars, codecVars, csvVars, concVars, lateVars>>

\* shards.lookup(a)
ShardedLookup(a) ==
    /\ lpc = "sharded"
    /\ ip32' = a
    /\ sret' = shardsLookup(shards, a)
    /\ lpc' = "slooked"
    /\ UNCHANGED <<tbl, ret, shards, evilVars, codecVars, csvVars, concVars, lateVars>>

NextLookup ==
    \/ \E a \in AddrSamples : Lookup(a)
    \/ Shard
    \/ \E a \in AddrSamples : ShardedLookup(a)

SpecLookup == InitLookup /\ [][NextLookup]_vars

---------------------------------------------------------------------------
(* Specification SpecEvil: an expiring table is drawn, then looked up.     *)

\* the expiring tables drawn: nil, and every sequence of entries in
\* ascending order of rangeTo, as loadEvilIP's sort.Sort leaves them
EvilTables ==
    {NilSlice} \cup {Slice(r) : r \in {q \in SeqUpTo(badIPRange, MaxLen) : SortedByTo(q)}}

InitEvil ==
    /\ epc = "built"
    /\ evil \in EvilTables
    /\ now = 0 /\ eip = U32Zero /\ bret = None /\ eret = None
    /\ InitLookupIdle
    /\ InitCodecIdle
    /\ InitCsvIdle
    /\ InitConcIdle
    /\ InitLateIdle

\* badIps.ranges.lookup(a)
BadLookup(a) ==
    /\ epc = "built"
    /\ eip' = a
    /\ bret' = badIPRangeListLookup(evil.elems, a)
    /\ epc' = "badlooked"
    /\ UNCHANGED <<evil, now, eret, lookupVars, codecVars, csvVars, concVars, lateVars>>

\* evilIPs.lookup(a) at the instant t
EvilLookup(a, t) ==
    /\ epc = "built"
    /\ eip' = a
    /\ now' = t
    /\ eret' = evilIPListLookup(evil, a, t)
    /\ epc' = "evillooked"
    /\ UNCHANGED <<evil, bret, lookupVars, codecVars, csvVars, concVars, lateVars>>

NextEvil ==
    \/ \E a \in EvilAddrSamples : BadLookup(a)
    \/ \E a \in EvilAddrSamples, t \in Instants : EvilLookup(a, t)

SpecEvil == InitEvil /\ [][NextEvil]_vars

---------------------------------------------------------------------------
(* Specification SpecCodec: ranges are drawn, written to a file with       *)
(* writeBinary, and the file is read back with loadIPRangesFromBinary.     *)

\* the values drawn for the fields of a record written to a file: 0, the
\* test's 387534209 and 2^32 - 1; and -1, the test's 20107093 and -2^31
CodecAddrSamples == {U32Zero, EvilBase, U32Max}
CodecDataSamples == {-1, 20107093, -2147483647 - 1}
CodecRanges ==
    [rangeFrom : CodecAddrSamples, rangeTo : CodecAddrSamples, data : CodecDataSamples]

InitCodec ==
    /\ cpc = "made"
    /\ ctbl \in SeqUpTo(CodecRanges, MaxLen)
    /\ file = <<>> /\ dec = None
    /\ fhist = NoHistory
    /\ InitLookupIdle
    /\ InitEvilIdle
    /\ InitCsvIdle
    /\ InitConcIdle
    /\ InitLateIdle

\* writeBinary(tempFile, want)
WriteBinary ==
    /\ cpc = "made"
    /\ file' = writeBinary(ctbl)
    /\ fhist' = [fhist EXCEPT !.writer = "binary"]
    /\ cpc' = "written"
    /\ UNCHANGED <<ctbl, dec, lookupVars, evilVars, csvVars, concVars, lateVars>>

\* tempFile.Seek(0, 0); actual, err := loadIPRangesFromBinary(tempFile)
LoadBinary ==
    /\ cpc \in {"written", "damaged"}
    /\ dec' = loadIPRangesFromBinary(file)
    /\ fhist' = [fhist EXCEPT !.loader = "binary"]
    /\ cpc' = "loaded"
    /\ UNCHANGED <<ctbl, file, lookupVars, evilVars, csvVars, concVars, lateVars>>

NextCodec == WriteBinary \/ LoadBinary

SpecCodec == InitCodec /\ [][NextCodec]_vars

---------------------------------------------------------------------------
(* Specification SpecFile: a table is written to a file by writeBinary or  *)
(* by writeMmap, the file may lose its end or have one byte changed, and   *)
(* it is read by loadIPRangesFromBinary or by mmapIpRanges.                *)

\* the records written: the test's address and the extreme values
FileRanges == {r \in CodecRanges : r.rangeFrom = EvilBase}

\* what is added to the byte that changes
ByteDeltas == {1, 255}

InitFile ==
    /\ cpc = "made"
    /\ ctbl \in SeqUpTo(FileRanges, MaxLen)
    /\ file = <<>> /\ dec = None
    /\ fhist \in {[NoHistory EXCEPT !.host = h] : h \in Hosts}
    /\ InitLookupIdle
    /\ InitEvilIdle
    /\ InitCsvIdle
    /\ InitConcIdle
    /\ InitLateIdle

\* writeMmap(tempFile.Name(), want)
WriteMmap ==
    /\ cpc = "made"
    /\ file' = writeMmap(fhist.host, ctbl)
    /\ fhist' = [fhist EXCEPT !.writer = "mmap"]
    /\ cpc' = "written"
    /\ UNCHANGED <<ctbl, dec, lookupVars, evilVars, csvVars, concVars, lateVars>>

\* the file is truncated, or was only partly written: its first k bytes remain
Cut(k) ==
    /\ cpc = "written"
    /\ k < Len(file)
    /\ file' = SubSeq(file, 1, k)
    /\ fhist' = [fhist EXCEPT !.damage = "cut", !.at = k]
    /\ cpc' = "damaged"
    /\ UNCHANGED <<ctbl, dec, lookupVars, evilVars, csvVars, concVars, lateVars>>

\* the k-th byte of the file is changed
Flip(k, d) ==
    /\ cpc = "written"
    /\ k \in 1 .. Len(file)
    /\ file' = [file EXCEPT ![k] = (@ + d) % 256]
    /\ fhist' = [fhist EXCEPT !.damage = "flip", !.at = k]
    /\ cpc' = "damaged"
    /\ UNCHANGED <<ctbl, dec, lookupVars, evilVars, csvVars, concVars, lateVars>>

\* actual, err := mmapIpRanges(tempFile.Name())
MmapLoad ==
    /\ cpc \in {"written", "damaged"}
    /\ dec' = mmapIpRanges(fhist.host, FileOf(file))
    /\ fhist' = [fhist EXCEPT !.loader = "mmap"]
    /\ cpc' = "loaded"
    /\ UNCHANGED <<ctbl, file, lookupVars, evilVars, csvVars, concVars, lateVars>>

\* the longest file written
MaxFileLen == 2 * Len(magicBytes) + 4 + MaxLen * ipRangeSize

NextFile ==
    \/ WriteBinary
    \/ WriteMmap
    \/ \E k \in 0 .. MaxFileLen : Cut(k)
    \/ \E k \in 1 .. MaxFileLen, d \in ByteDeltas : Flip(k, d)
    \/ LoadBinary
    \/ MmapLoad

SpecFile == InitFile /\ [][NextFile]_vars

---------------------------------------------------------------------------
(* CSV loading.  A field is the list of its characters; a record is the    *)
(* list of its fields, as csv.Reader.Read returns it.  Modelled from       *)
(* loadIPRangesFromCSV of main.go, which reads both shapes of row          *)
(* (ipRanges.load is the same loop followed by the assignment under the    *)
(* lock; the later loadIPRangesFromCSV reads the two-field shape only),    *)
(* and from openIPRanges, the earlier builder.                             *)

DigitOf ==
    ("0" :> 0) @@ ("1" :> 1) @@ ("2" :> 2) @@ ("3" :> 3) @@ ("4" :> 4) @@
    ("5" :> 5) @@ ("6" :> 6) @@ ("7" :> 7) @@ ("8" :> 8) @@ ("9" :> 9)

\* the number written by the first n characters of s, all of them digits
RECURSIVE digitsValue(_, _)
digitsValue(s, n) ==
    IF n = 0 THEN 0 ELSE digitsValue(s, n - 1) * 10 + DigitOf[s[n]]

\* strconv.Atoi: an optional sign, then one or more digits and nothing else
Atoi(s) ==
    LET signed == Len(s) > 0 /\ s[1] \in {"+", "-"}
        body   == IF signed THEN Tail(s) ELSE s
        n      == digitsValue(body, Len(body))
    IN  IF body = <<>> \/ \E i \in 1 .. Len(body) : body[i] \notin DOMAIN DigitOf
        THEN [val |-> 0, err |-> "syntax"]
        ELSE [val |-> IF signed /\ s[1] = "-" THEN 0 - n ELSE n, err |-> ""]

\* a plausible slip: the conversion's error dropped, as openIPRanges does
checkIgnoring(cerr, s) == [val |-> Atoi(s).val, err |-> cerr]

\* converr.check: the value converted, and the error the converr now holds
check(cerr, s) ==
    LET a == Atoi(s)
    IN  IF a.err # "" THEN [val |-> 0, err |-> a.err] ELSE [val |-> a.val, err |-> cerr]

\* uint32(n) of an int n: its low 32 bits
uint32OfInt(n) == U32((n \div Half) % Half, n % Half)

\* svr.Read() for the i-th record: csv.Reader holds every record to the
\* number of fields of the first one (FieldsPerRecord is left at 0)
csvRead(rs, i) ==
    [r |-> rs[i], err |-> IF Len(rs[i]) # Len(rs[1]) THEN "fieldcount" ELSE ""]

\* a plausible slip: prevIP left as it was by a two-field row
convertRowStalePrev(r, prevIP) ==
    IF Len(r) < 3
    THEN LET t == check("", r[1])
             d == check(t.err, r[2])
         IN  [ipFrom |-> prevIP + 1, ipTo |-> t.val, data |-> d.val,
              err |-> d.err, prevIP |-> prevIP]
    ELSE LET f == check("", r[1])
             t == check(f.err, r[2])
             d == check(t.err, r[3])
         IN  [ipFrom |-> f.val, ipTo |-> t.val, data |-> d.val,
              err |-> d.err, prevIP |-> prevIP]

\* the body of the loop for one record: the three ints, the converr's
\* error, and prevIP after the record
convertRow(r, prevIP) ==
    IF Len(r) < 3
    THEN LET t == check("", r[1])
             d == check(t.err, r[2])
         IN  [ipFrom |-> prevIP + 1, ipTo |-> t.val, data |-> d.val,
              err |-> d.err, prevIP |-> t.val]
    ELSE LET f == check("", r[1])
             t == check(f.err, r[2])
             d == check(t.err, r[3])
         IN  [ipFrom |-> f.val, ipTo |-> t.val, data |-> d.val,
              err |-> d.err, prevIP |-> prevIP]

\* the loop of loadIPRangesFromCSV from the i-th record on
RECURSIVE csvLoop(_, _, _, _)
csvLoop(rs, i, ips, prevIP) ==
    IF i > Len(rs)
    THEN [ranges |-> IF ips = <<>> THEN NilSlice ELSE Slice(ips), err |-> ""]
    ELSE LET rd == csvRead(rs, i)
             c  == convertRow(rd.r, prevIP)
         IN  IF rd.err # "" THEN LoadError(rd.err)
             ELSE IF c.err # "" THEN LoadError(c.err)
             ELSE csvLoop(rs, i + 1,
                          Append(ips, [rangeFrom |-> uint32OfInt(c.ipFrom),
                                       rangeTo   |-> uint32OfInt(c.ipTo),
                                       data      |-> c.data]),
                          c.prevIP)

\* loadIPRangesFromCSV(fname, strconv.Atoi) on a file that opens
loadIPRangesFromCSV(rs) == csvLoop(rs, 1, <<>>, -1)

\* int32(n) of an int n that fits 32 bits (no field drawn is wider)
int32OfInt(n) == n

\* a plausible slip: ipFrom = prevIP, a range starting on its predecessor's end
laterRowFromPrev(r, prevIP) ==
    LET t == check("", r[1])
        d == check(t.err, r[2])
    IN  [ipFrom |-> prevIP, ipTo |-> t.val, data |-> d.val,
         err |-> d.err, prevIP |-> t.val]

\* the body of the loop of the later loader, which reads r[0] and r[1] of
\* every record
laterRow(r, prevIP) ==
    LET t == check("", r[1])
        d == check(t.err, r[2])
    IN  [ipFrom |-> prevIP + 1, ipTo |-> t.val, data |-> d.val,
         err |-> d.err, prevIP |-> t.val]

\* the loop of the later loader from the i-th record on
RECURSIVE laterLoop(_, _, _, _)
laterLoop(rs, i, ips, prevIP) ==
    IF i > Len(rs)
    THEN [ranges |-> IF ips = <<>> THEN NilSlice ELSE Slice(ips), err |-> ""]
    ELSE LET rd == csvRead(rs, i)
             c  == laterRow(rd.r, prevIP)
         IN  IF rd.err # "" THEN LoadError(rd.err)
             ELSE IF c.err # "" THEN LoadError(c.err)
             ELSE laterLoop(rs, i + 1,
                            Append(ips, [rangeFrom |-> uint32OfInt(c.ipFrom),
                                         rangeTo   |-> uint32OfInt(c.ipTo),
                                         data      |-> int32OfInt(c.data)]),
                            c.prevIP)

\* loadIpRangesFromCSV(fname), loadIPRangesFromCSV(file) of the later
\* revisions, on a file that opens
loadIpRangesFromCSV(rs) == laterLoop(rs, 1, <<>>, -1)

\* the loop of openIPRanges from the i-th record on: conversion errors are
\* ignored, a CSV error ends the process, r[2] of a shorter record panics
RECURSIVE openLoop(_, _, _)
openLoop(rs, i, ipr) ==
    IF i > Len(rs) THEN [ranges |-> ipr, err |-> ""]
    ELSE LET rd == csvRead(rs, i)
         IN  IF rd.err # "" THEN [ranges |-> <<>>, err |-> "fatal"]
             ELSE IF Len(rd.r) < 3 THEN [ranges |-> <<>>, err |-> "panic"]
             ELSE openLoop(rs, i + 1,
                           Append(ipr, [rangeFrom |-> uint32OfInt(Atoi(rd.r[1]).val),
                                        rangeTo   |-> uint32OfInt(Atoi(rd.r[2]).val),
                                        data      |-> Atoi(rd.r[3]).val]))

\* the orders of the elements of r
OrdersOf(r) ==
    {[i \in 1 .. Len(r) |-> r[p[i]]] :
        p \in {q \in [1 .. Len(r) -> 1 .. Len(r)] :
                 \A i, j \in 1 .. Len(r) : i # j => q[i] # q[j]}}

\* sort.Sort(&ipr) with Less on rangeTo: some ascending order of the
\* elements (the sort is not stable: equal rangeTo may land in any order)
sortSort(ipr) == {s \in OrdersOf(ipr) : SortedByTo(s)}

\* the tables openIPRanges(fname, 0, ',', strconv.Atoi) may return
openIPRanges(rs) ==
    LET o == openLoop(rs, 1, <<>>)
    IN  IF o.err # "" THEN {LoadError(o.err)}
        ELSE IF o.ranges = <<>> THEN {[ranges |-> NilSlice, err |-> ""]}
        ELSE IF SortedByTo(o.ranges) THEN {Loaded(o.ranges)}
        ELSE {Loaded(s) : s \in sortSort(o.ranges)}

\* the result of lookupRange, of ipRanges.lookup: the int returned (0 when
\* no range holds the address), or a runtime panic
RangeData(d) == [data |-> d, panic |-> FALSE]
RangePanic   == [data |-> 0, panic |-> TRUE]

\* ipRanges.lookup of main.go: ipRangeList.lookup, nil turned into 0
ipRangesLookup(r, a) ==
    LET idx == sortSearch(r, a)
    IN  IF idx # -1
        THEN IF idx >= Len(r) THEN RangePanic
             ELSE IF /\ U32Le(r[idx + 1].rangeFrom, a)
                     /\ U32Le(a, r[idx + 1].rangeTo)
                  THEN RangeData(r[idx + 1].data)
                  ELSE RangeData(0)
        ELSE RangeData(0)

\* lookupRange(ip32, ipr), the lookup that goes with openIPRanges
lookupRange(a, ipr) ==
    LET idx == sortSearch(ipr, a)
    IN  IF idx # -1
        THEN IF idx >= Len(ipr) THEN RangePanic
             ELSE IF /\ U32Le(ipr[idx + 1].rangeFrom, a)
                     /\ U32Le(a, ipr[idx + 1].rangeTo)
                  THEN RangeData(ipr[idx + 1].data)
                  ELSE RangeData(0)
        ELSE RangeData(0)

---------------------------------------------------------------------------
(* Specification SpecCsv: a CSV file of two-field or three-field records   *)
(* is read by loadIPRangesFromCSV, whose table is published when the load  *)
(* succeeds, by the later loader of two-field records, or by openIPRanges; *)
(* an address is then looked up in the table built, by the lookup that     *)
(* goes with the loader.                                                   *)

\* the fields drawn as inputs: addresses 0, 4 and 12 and a malformed one;
\* payloads -7 and a malformed one
AddrFields == {<<"0">>, <<"4">>, <<"1", "2">>, <<"4", "x">>}
DataFields == {<<"-", "7">>, <<"x">>}
CsvRecords ==
    {<<t, d>> : t \in AddrFields, d \in DataFields}
    \cup {<<f, t, d>> : f \in AddrFields, t \in AddrFields, d \in DataFields}

\* the addresses looked up
CsvAddrs == {U32(0, 0), U32(0, 4), U32(0, 5), U32(0, 12)}

\* the table in the index before the load
OldRanges == Slice(<<[rangeFrom |-> U32Zero, rangeTo |-> U32Max, data |-> 1]>>)

InitCsv ==
    /\ kpc = "file"
    /\ records \in SeqUpTo(CsvRecords, MaxLen)
    /\ kby = None /\ kbuilt = None
    /\ kpub = OldRanges
    /\ kip = U32Zero /\ kret = None
    /\ InitLookupIdle
    /\ InitEvilIdle
    /\ InitCodecIdle
    /\ InitConcIdle
    /\ InitLateIdle

\* ranges, err := loadIPRangesFromCSV(fname, strconv.Atoi);
\* if err == nil { the table is assigned under the lock }
CsvLoad ==
    /\ kpc = "file"
    /\ kbuilt' = loadIPRangesFromCSV(records)
    /\ kpub' = IF publishes(kbuilt') THEN kbuilt'.ranges ELSE kpub
    /\ kby' = "load"
    /\ kpc' = "built"
    /\ UNCHANGED <<records, kip, kret, lookupVars, evilVars, codecVars, concVars, lateVars>>

\* ranges, e := loadIPRanges(ufi, isbinary) on a CSV file;
\* if e == nil { the table is assigned under the lock }
CsvLoadLater ==
    /\ kpc = "file"
    /\ kbuilt' = loadIpRangesFromCSV(records)
    /\ kpub' = IF publishes(kbuilt') THEN kbuilt'.ranges ELSE kpub
    /\ kby' = "later"
    /\ kpc' = "built"
    /\ UNCHANGED <<records, kip, kret, lookupVars, evilVars, codecVars, concVars, lateVars>>

\* ufis = openIPRanges(fname, 0, ',', strconv.Atoi)
CsvOpen ==
    /\ kpc = "file"
    /\ kbuilt' \in openIPRanges(records)
    /\ kpub' = IF kbuilt'.err = "" THEN kbuilt'.ranges ELSE kpub
    /\ kby' = "open"
    /\ kpc' = "built"
    /\ UNCHANGED <<records, kip, kret, lookupVars, evilVars, codecVars, concVars, lateVars>>

\* ufis.lookup(a), lookupRange(a, ufis): the published table is searched
CsvLookup(a) ==
    /\ kpc = "built"
    /\ kbuilt.err = ""
    /\ kip' = a
    /\ kret' = CASE kby = "load"  -> ipRangesLookup(kpub.elems, a)
                 [] kby = "later" -> ipRangeListLookup(kpub.elems, a)
                 [] OTHER         -> lookupRange(a, kpub.elems)
    /\ kpc' = "looked"
    /\ UNCHANGED <<records, kby, kbuilt, kpub, lookupVars, evilVars, codecVars, concVars, lateVars>>

NextCsv ==
    \/ CsvLoad
    \/ CsvLoadLater
    \/ CsvOpen
    \/ \E a \in CsvAddrs : CsvLookup(a)

SpecCsv == InitCsv /\ [][NextCsv]_vars

---------------------------------------------------------------------------
(* The EvilIP rows.  loadEvilIP turns each row (ip, subnet, status,        *)
(* expires) of the query into the range of the subnet, in uint32           *)
(* arithmetic, and sorts the ranges by rangeTo.  Bitwise operations are    *)
(* computed bit by bit on the two halves of a uint32.                      *)

\* a & b and a | b on the low n bits of two naturals
RECURSIVE bitAnd(_, _, _)
bitAnd(a, b, n) ==
    IF n = 0 THEN 0
    ELSE (a % 2) * (b % 2) + 2 * bitAnd(a \div 2, b \div 2, n - 1)
RECURSIVE bitOr(_, _, _)
bitOr(a, b, n) ==
    IF n = 0 THEN 0
    ELSE (IF (a % 2) + (b % 2) > 0 THEN 1 ELSE 0) + 2 * bitOr(a \div 2, b \div 2, n - 1)

U32And(a, b) == U32(bitAnd(a[1], b[1], 16), bitAnd(a[2], b[2], 16))
U32Or(a, b)  == U32(bitOr(a[1], b[1], 16), bitOr(a[2], b[2], 16))
\* ^a
U32Not(a)    == U32(Half - 1 - a[1], Half - 1 - a[2])
\* a - 1 in uint32 arithmetic (0 wraps to 2^32 - 1)
U32Dec(a) ==
    IF a[2] > 0 THEN U32(a[1], a[2] - 1) ELSE U32((a[1] + Half - 1) % Half, Half - 1)

\* uint32(1) << k for a count k of type uint: 0 once k reaches 32
U32Shl1(k) ==
    IF k >= 32 THEN U32Zero
    ELSE IF k < 16 THEN U32(0, 2^k) ELSE U32(2^(k - 16), 0)

\* 32 - subnet in the arithmetic of uint: it wraps to a count far above 32
\* when subnet exceeds 32
shiftCount(subnet) == IF subnet <= 32 THEN 32 - subnet ELSE 64

\* a plausible slip: the mask taken without the decrement
evilMaskNoDecrement(subnet) == U32Shl1(shiftCount(subnet))

\* mask := uint32(1<<(32-subnet)) - 1
evilMask(subnet) == U32Dec(U32Shl1(shiftCount(subnet)))

\* the ipRange appended for one row: ipmin := ip & ^mask; ipmax := ip | mask
evilRange(row) ==
    [rangeFrom |-> U32And(row.ip, U32Not(evilMask(row.subnet))),
     rangeTo   |-> U32Or(row.ip, evilMask(row.subnet)),
     data      |-> [status |-> row.status, expires |-> 1]]

\* the tables loadEvilIP may return for the rows rs of a query that
\* succeeds: the ranges in file order, then sort.Sort(ranges)
loadEvilIP(rs) ==
    IF rs = <<>> THEN {[ranges |-> NilSlice, err |-> ""]}
    ELSE {Loaded(s) : s \in sortSort([i \in 1 .. Len(rs) |-> evilRange(rs[i])])}

---------------------------------------------------------------------------
(* Specification SpecSubnet: the rows of the EvilIP table are loaded by    *)
(* loadEvilIP and an address is looked up in the table.                    *)

\* the addresses of the rows: 23.25.93.129 (the test's address), 0 and
\* 2^32 - 1
SubnetIps == {EvilBase, U32Zero, U32Max}
\* every subnet size
SubnetSizes == 0 .. 32
\* rows of one address and every subnet size
MaskRows == [ip : SubnetIps, subnet : SubnetSizes, status : {"bad"}]
\* rows that nest or lie side by side: 23.25.93.129/32 in 23.25.93.0/24,
\* 23.25.94.0/24 next to it
NestRows ==
    {[ip |-> EvilBase, subnet |-> 32, status |-> "host"],
     [ip |-> EvilBase, subnet |-> 24, status |-> "net"],
     [ip |-> U32(5913, 24064), subnet |-> 24, status |-> "next"]}
\* the addresses looked up: 23.25.93.3, 23.25.93.129, 23.25.93.200,
\* 23.25.94.0, 23.25.92.255
SubnetAddrs ==
    {U32(5913, 23811), EvilBase, U32(5913, 23880), U32(5913, 24064), U32(5913, 23807)}

InitSubnet ==
    /\ dpc = "rows"
    /\ drows \in SeqUpTo(NestRows, MaxLen) \cup {<<r>> : r \in MaskRows}
    /\ dbuilt = None /\ dip = U32Zero /\ dret = None
    /\ InitEarlyIdle /\ InitMainIdle /\ InitDataIdle /\ InitInfoIdle

\* ranges, err := loadEvilIP(evilipdb); EvilIPs.ranges = ranges
SubnetLoad ==
    /\ dpc = "rows"
    /\ dbuilt' \in loadEvilIP(drows)
    /\ dpc' = "built"
    /\ UNCHANGED <<drows, dip, dret, notSubnetVars>>

\* evil.ranges.lookup(a) of EvilIPList.lookup, which returns at once when
\* the table is nil
SubnetLookup(a) ==
    /\ dpc = "built"
    /\ dip' = a
    /\ dret' = IF dbuilt.ranges.isNil THEN BadMissing(0)
               ELSE mainIpRangeListLookup(dbuilt.ranges.elems, a)
    /\ dpc' = "looked"
    /\ UNCHANGED <<drows, dbuilt, notSubnetVars>>

NextSubnet ==
    \/ SubnetLoad
    \/ \E a \in SubnetAddrs : SubnetLookup(a)

SpecSubnet == InitSubnet /\ [][NextSubnet]_vars

---------------------------------------------------------------------------
(* Specification SpecMain: main loads the data, starts the reload          *)
(* goroutine and serves; SIGHUPs arrive.  Two mains are covered: the later *)
(* one, whose goroutine ranges over a channel of capacity 1                *)
(* ("buffered"), and the earlier one, whose goroutine selects between an   *)
(* unbuffered channel and the one-minute ticker of the EvilIP table        *)
(* ("select").  The signal package never blocks on the channel: a signal   *)
(* that finds no room and no waiting receiver is dropped.                  *)

\* most SIGHUPs followed
MaxSignals == 3

\* "selectEvil" is the selecting main run with an EvilIP database
Mains == {"buffered", "select", "selectEvil"}

\* a plausible slip: a channel that holds two signals
chanCapTwo(v) == IF v = "buffered" THEN 2 ELSE 0

\* make(chan os.Signal, 1) / make(chan os.Signal)
chanCap(v) == IF v = "buffered" THEN 1 ELSE 0

NoSignals ==
    [sent |-> 0, started |-> 0,
     during |-> [k \in 1 .. MaxSignals |-> 0],
     caused |-> [k \in 0 .. MaxSignals |-> 0]]

InitMain ==
    /\ mvar \in Mains
    /\ mpc = "load" /\ gpc = "off" /\ sigs = <<>>
    /\ sh = NoSignals
    /\ InitEarlyIdle /\ InitSubnetIdle /\ InitDataIdle /\ InitInfoIdle

\* err := loadDataFiles(...); if err != nil { log.Fatal }
MainLoad(ok) ==
    /\ mpc = "load"
    /\ mpc' = IF ~ok THEN "exited" ELSE IF mvar = "selectEvil" THEN "evil" ELSE "spawn"
    /\ UNCHANGED <<mvar, gpc, sigs, sh, notMainVars>>

\* ranges, err := loadEvilIP(evilipdb); log.Fatal or the assignment under
\* the lock
MainEvil(ok) ==
    /\ mpc = "evil"
    /\ mpc' = IF ok THEN "spawn" ELSE "exited"
    /\ UNCHANGED <<mvar, gpc, sigs, sh, notMainVars>>

\* a plausible slip: the goroutine started before the data is loaded
MainSpawnEarly ==
    /\ mpc \in {"load", "evil", "spawn"} /\ gpc = "off"
    /\ gpc' = "recv"
    /\ mpc' = IF mpc = "spawn" THEN "serve" ELSE mpc
    /\ UNCHANGED <<mvar, sigs, sh, notMainVars>>

\* go func() { sigs := make(chan os.Signal, ...); signal.Notify(...); ... }()
MainSpawn ==
    /\ mpc = "spawn" /\ gpc = "off"
    /\ gpc' = "recv"
    /\ mpc' = "serve"
    /\ UNCHANGED <<mvar, sigs, sh, notMainVars>>

\* the reload the goroutine is in, 0 when it is in none
CurrentReload == IF gpc = "reload" THEN sh.started ELSE 0

\* a reload of the data files starts for a signal that arrived during the
\* reload k (0: while the goroutine waited)
StartReload(h, k) ==
    [h EXCEPT !.started = @ + 1, !.caused[k] = @ + 1]

\* a SIGHUP reaches the process after signal.Notify: it is put in the
\* channel when there is room, handed to the goroutine when it waits on an
\* unbuffered channel, and dropped otherwise
SignalDeliver ==
    /\ gpc # "off" /\ mpc # "exited"
    /\ sh.sent < MaxSignals
    /\ LET h == [sh EXCEPT !.sent = @ + 1,
                           !.during = IF gpc = "reload"
                                      THEN [@ EXCEPT ![sh.started] = @ + 1] ELSE @]
       IN  IF Len(sigs) < chanCap(mvar)
           THEN sigs' = Append(sigs, CurrentReload) /\ sh' = h /\ gpc' = gpc
           ELSE IF chanCap(mvar) = 0 /\ gpc = "recv"
           THEN sigs' = sigs /\ sh' = StartReload(h, 0) /\ gpc' = "reload"
           ELSE sigs' = sigs /\ sh' = h /\ gpc' = gpc
    /\ UNCHANGED <<mvar, mpc, notMainVars>>

\* for range sigs / case <-sigs: a signal is taken from the channel and
\* "Attempting to reload data files" is logged
SigReceive ==
    /\ gpc = "recv" /\ sigs # <<>>
    /\ sigs' = Tail(sigs)
    /\ sh' = StartReload(sh, Head(sigs))
    /\ gpc' = "reload"
    /\ UNCHANGED <<mvar, mpc, notMainVars>>

\* loadDataFiles returns, its outcome is logged, the goroutine waits again
SigReloadDone ==
    /\ gpc = "reload"
    /\ gpc' = "recv"
    /\ UNCHANGED <<mvar, mpc, sigs, sh, notMainVars>>

\* case <-minute: the reload of the EvilIP table starts (the ticker exists
\* only with an EvilIP database; a nil channel never delivers)
MinuteTick ==
    /\ gpc = "recv" /\ mvar = "selectEvil"
    /\ gpc' = "evil"
    /\ UNCHANGED <<mvar, mpc, sigs, sh, notMainVars>>

\* loadEvilIP has returned and the table is assigned, or the failure logged
EvilReloadDone ==
    /\ gpc = "evil"
    /\ gpc' = "recv"
    /\ UNCHANGED <<mvar, mpc, sigs, sh, notMainVars>>

NextMain ==
    \/ \E ok \in BOOLEAN : MainLoad(ok)
    \/ \E ok \in BOOLEAN : MainEvil(ok)
    \/ MainSpawn
    \/ SignalDeliver
    \/ SigReceive
    \/ SigReloadDone
    \/ MinuteTick
    \/ EvilReloadDone

SpecMain == InitMain /\ [][NextMain]_vars

\* the goroutine runs when it can: it takes a signal that waits in the
\* channel and it finishes the reload it has begun
SpecMainFair ==
    /\ SpecMain
    /\ WF_vars(SigReceive) /\ WF_vars(SigReloadDone) /\ WF_vars(EvilReloadDone)

---------------------------------------------------------------------------
(* Specification SpecData: loadDataFiles called again and again.  Each     *)
(* source (the city, net-speed and ISP databases, the UFI index and, in    *)
(* the earlier main, the next-hop index) publishes a version: 0 before any *)
(* load, n once the n-th call has replaced it.  Whether a source's file    *)
(* loads is an input of each call.                                         *)

Sources == <<"gcity", "gspeed", "gisp", "ufis", "nexthops">>
SourceSet == {Sources[i] : i \in 1 .. Len(Sources)}

\* the error of a call: nil, or the error of the source named
NilError == "nil"

\* which loads a call attempts
attempts(cfg, s) ==
    CASE s = "gcity"    -> TRUE
      [] s = "gspeed"   -> ~cfg.lite
      [] s = "gisp"     -> ~cfg.lite
      [] s = "ufis"     -> cfg.ufi
      [] s = "nexthops" -> cfg.nexthop

\* a plausible slip: err = e without the test, a success clearing the error
loadOneOverwriting(st, s, ok, n) ==
    IF ok THEN [pub |-> [st.pub EXCEPT ![s] = n], err |-> NilError]
    ELSE [st EXCEPT !.err = s]

\* one source of loadDataFiles: geodb.load, or the loader followed by the
\* assignment under the lock; on failure the error is kept and the source
\* is left alone
loadOne(st, s, ok, n) ==
    IF ok THEN [st EXCEPT !.pub[s] = n]
    ELSE [st EXCEPT !.err = s]

RECURSIVE loadFrom(_, _, _, _, _)
loadFrom(i, st, cfg, out, n) ==
    IF i > Len(Sources) THEN st
    ELSE loadFrom(i + 1,
                  IF attempts(cfg, Sources[i])
                  THEN loadOne(st, Sources[i], out[Sources[i]], n) ELSE st,
                  cfg, out, n)

\* loadDataFiles: every source configured is tried in turn; the error
\* returned is that of the last source that failed
loadDataFiles(cfg, pub, out, n) ==
    loadFrom(1, [pub |-> pub, err |-> NilError], cfg, out, n)

DataConfigs == [lite : BOOLEAN, ufi : BOOLEAN, nexthop : BOOLEAN]

InitData ==
    /\ fcfg \in DataConfigs
    /\ fpub = [s \in SourceSet |-> 0]
    /\ fprev = fpub
    /\ fout = [s \in SourceSet |-> TRUE]
    /\ ferr = NilError /\ fcalls = 0
    /\ InitEarlyIdle /\ InitSubnetIdle /\ InitMainIdle /\ InitInfoIdle

\* err := loadDataFiles(...), at startup or after a SIGHUP
DataLoad(out) ==
    /\ fcalls < MaxReloads
    /\ LET r == loadDataFiles(fcfg, fpub, out, fcalls + 1)
       IN  /\ fpub' = r.pub
           /\ ferr' = r.err
    /\ fprev' = fpub
    /\ fout' = out
    /\ fcalls' = fcalls + 1
    /\ UNCHANGED <<fcfg, notDataVars>>

NextData == \E out \in [SourceSet -> BOOLEAN] : DataLoad(out)

SpecData == InitData /\ [][NextData]_vars

---------------------------------------------------------------------------
(* Specification SpecInfo: lookupIPInfo on a textual address, in its three *)
(* revisions: the latest ("latest", ufis.lookup returning (value, ok)),    *)
(* the one of main.go ("main") and the handler that tests the address      *)
(* before it consults the indexes ("guarded").  A net.IP is the slice of   *)
(* its bytes.                                                              *)

Zeros(n) == [i \in 1 .. n |-> 0]

\* net.ParseIP on the texts drawn: an IPv4 text and an IPv4-mapped text
\* give the same 16 bytes, an IPv6 text gives its 16 bytes, anything else
\* gives nil
ParseIP(text) ==
    CASE text = "0.0.0.4"        -> Slice(Zeros(10) \o <<255, 255, 0, 0, 0, 4>>)
      [] text = "::ffff:0.0.0.4" -> Slice(Zeros(10) \o <<255, 255, 0, 0, 0, 4>>)
      [] text = "0.0.0.12"       -> Slice(Zeros(10) \o <<255, 255, 0, 0, 0, 12>>)
      [] text = "::4"            -> Slice(Zeros(15) \o <<4>>)
      [] text = "2001:db8::c"    -> Slice(<<32, 1, 13, 184>> \o Zeros(11) \o <<12>>)
      [] OTHER                   -> NilSlice

IpTexts == {"0.0.0.4", "::ffff:0.0.0.4", "0.0.0.12", "::4", "2001:db8::c", "x"}

\* net.IP.To4: the 4 bytes of a 4-byte address or of a 16-byte address
\* with the IPv4-in-IPv6 prefix, nil otherwise
To4(ip) ==
    IF Len(ip.elems) = 4 THEN ip
    ELSE IF /\ Len(ip.elems) = 16
            /\ \A i \in 1 .. 10 : ip.elems[i] = 0
            /\ ip.elems[11] = 255 /\ ip.elems[12] = 255
    THEN Slice(SubSeq(ip.elems, 13, 16))
    ELSE NilSlice

\* uint32(ip4[0])<<24 | uint32(ip4[1])<<16 | uint32(ip4[2])<<8 | uint32(ip4[3])
ip32Of(ip4) == U32(ip4[1] * 256 + ip4[2], ip4[3] * 256 + ip4[4])

\* what lookupIPInfo returns, with the addresses it searched the index for
IPInfoOf(e, ufi, asked, p) ==
    [err |-> e, GuessedUFI |-> ufi, consulted |-> asked, panic |-> p]

\* lookupIPInfo(ip) against the UFI index: ip32 stays 0 when the address is
\* not IPv4; only the guarded revision skips the index then
lookupIPInfo(rev, text, ufisPtr) ==
    LET netip == ParseIP(text)
        v4    == To4(netip)
        addr  == IF ~v4.isNil THEN ip32Of(v4.elems) ELSE U32Zero
    IN  IF netip.isNil THEN IPInfoOf("parse", 0, {}, FALSE)
        ELSE IF ufisPtr.isNilPtr THEN IPInfoOf("", 0, {}, FALSE)
        ELSE CASE rev = "latest" ->
                    LET r == ipRangeListLookup(ufisPtr.ranges.elems, addr)
                    IN  IPInfoOf("", IF r.ok THEN r.data ELSE 0, {addr}, FALSE)
               [] rev = "main" ->
                    LET r == ipRangesLookup(ufisPtr.ranges.elems, addr)
                    IN  IPInfoOf("", r.data, {addr}, r.panic)
               [] OTHER ->
                    IF v4.isNil THEN IPInfoOf("", 0, {}, FALSE)
                    ELSE LET r == lookupRange(addr, ufisPtr.ranges.elems)
                         IN  IPInfoOf("", r.data, {addr}, r.panic)

InfoRevs == {"latest", "main", "guarded"}

\* the UFI index: the nil pointer, or a table that starts at address 0 (as
\* every table of two-field records does), one that does not, an empty one
InfoTables ==
    {[isNilPtr |-> TRUE, ranges |-> NilSlice],
     [isNilPtr |-> FALSE, ranges |-> NilSlice],
     [isNilPtr |-> FALSE,
      ranges |-> Slice(<<[rangeFrom |-> U32Zero, rangeTo |-> U32(0, 4), data |-> 7],
                         [rangeFrom |-> U32(0, 5), rangeTo |-> U32(0, 12), data |-> 9]>>)],
     [isNilPtr |-> FALSE,
      ranges |-> Slice(<<[rangeFrom |-> U32(0, 3), rangeTo |-> U32(0, 12), data |-> 9]>>)]}

InitInfo ==
    /\ irev \in InfoRevs
    /\ itext \in IpTexts
    /\ iufis \in InfoTables
    /\ ipc = "call"
    /\ iret = IPInfoOf("", 0, {}, FALSE)
    /\ InitEarlyIdle /\ InitSubnetIdle /\ InitMainIdle /\ InitDataIdle

\* ipinfo, err := lookupIPInfo(ip)
InfoLookup ==
    /\ ipc = "call"
    /\ iret' = lookupIPInfo(irev, itext, iufis)
    /\ ipc' = "done"
    /\ UNCHANGED <<irev, itext, iufis, notInfoVars>>

NextInfo == InfoLookup

SpecInfo == InitInfo /\ [][NextInfo]_vars

---------------------------------------------------------------------------
(* Specification SpecConc: lookups run while the reload goroutine          *)
(* replaces the published table.  Four processes are covered, one per      *)
(* initial state: the server of the UFI table (L1, L2, R reloading on      *)
(* SIGHUP), and the server of the EvilIP table (R reloading every minute)  *)
(* with a caller of evilIPList.lookup (E), with a caller of the older      *)
(* EvilIPList.lookup (M), or with the callers of badIPRanges.lookup        *)
(* (B1, B2).                                                               *)

\* the UFI tables the files on disk hold, and the addresses looked up
UfiEntry1 == [rangeFrom |-> U32(0, 1), rangeTo |-> U32(0, 2), data |-> 20107093]
UfiEntry2 == [rangeFrom |-> U32(256, 0), rangeTo |-> U32(256, 0), data |-> -1]
UfiTableSamples == {<<>>, <<UfiEntry1>>, <<UfiEntry1, UfiEntry2>>}
UfiAddrs == {U32(0, 1), U32(256, 0)}

\* the file a reload finds: absent, a table written by writeBinary, a file
\* cut in the middle of its second record, a file with a foreign header
UfiFiles ==
    {MissingFile}
    \cup {FileOf(writeBinary(t)) : t \in UfiTableSamples}
    \cup {FileOf(SubSeq(writeBinary(<<UfiEntry1, UfiEntry2>>), 1, 29)),
          FileOf(<<0>> \o Tail(writeBinary(<<UfiEntry1>>)))}

\* what loadEvilIP returns: an error with a nil slice; a nil slice when the
\* query yields no row; the rows sorted by rangeTo
EvilEntry1 ==
    [rangeFrom |-> EvilBase, rangeTo |-> EvilBase,
     data |-> [status |-> "bad", expires |-> 1]]
EvilEntry2 ==
    [rangeFrom |-> U32Inc(EvilBase), rangeTo |-> U32Inc(EvilBase),
     data |-> [status |-> "badder", expires |-> 1]]
EvilTableSamples == {<<EvilEntry1>>, <<EvilEntry1, EvilEntry2>>}
EvilLoads == {LoadError("query"), NoLoad} \cup {Loaded(t) : t \in EvilTableSamples}
EvilAddrs == {EvilBase, U32Inc(EvilBase)}
\* the addresses a goroutine looks up
AddrsOf(p) == IF p \in UfiLookups THEN UfiAddrs ELSE EvilAddrs
\* the instants of the expiring lookups: the entries' expiry and a later one
EvilInstants == {1, 2}

InitConc(lookups, wait, tables) ==
    /\ ranges \in tables
    /\ ver = 0
    /\ mu = Unlocked
    /\ pc = [p \in Procs |->
               IF p \in lookups THEN "idle" ELSE IF p = Reloader THEN wait ELSE "off"]
    /\ loc = [p \in Lookups |-> NoLocals]
    /\ rl = [NoReload EXCEPT !.before = ranges]
    /\ log = <<>>
    /\ InitLookupIdle /\ InitEvilIdle /\ InitCodecIdle /\ InitCsvIdle /\ InitLateIdle

\* main has loaded the UFI file, or has exited
InitUfis ==
    InitConc(UfiLookups, "sigwait", {Slice(t) : t \in UfiTableSamples})

\* main has loaded the EvilIP rows, or has exited
InitEvilIPs ==
    InitConc(UnlockedEvilLookups, "tickwait",
             {l.ranges : l \in EvilLoads \ {LoadError("query")}})

InitOldEvilIPs ==
    InitConc(OldEvilLookups, "tickwait",
             {l.ranges : l \in EvilLoads \ {LoadError("query")}})

InitBadIPs ==
    InitConc(BadLookups, "tickwait",
             {l.ranges : l \in EvilLoads \ {LoadError("query")}})

\* ---- the reload goroutine ----

\* case <-sigs / for range sigs: a SIGHUP is taken
Sighup ==
    /\ pc[Reloader] = "sigwait"
    /\ rl.n < MaxReloads
    /\ rl' = [n |-> rl.n + 1, res |-> NoLoad, err |-> "",
              before |-> ranges, verBefore |-> ver]
    /\ log' = Append(log, "Attempting to reload data files")
    /\ pc' = [pc EXCEPT ![Reloader] = "load"]
    /\ UNCHANGED <<ranges, ver, mu, loc, seqVars>>

\* loadDataFiles: ranges, e := loadIPRanges(ufi, isbinary); on an error it is
\* logged and kept for the caller, else the table goes on to be published
UfiLoad(f) ==
    /\ pc[Reloader] = "load"
    /\ LET res == loadIPRanges(f)
       IN  /\ rl' = [rl EXCEPT !.res = res, !.err = res.err]
           /\ log' = IF res.err # "" THEN Append(log, "unable to load") ELSE log
           /\ pc' = [pc EXCEPT ![Reloader] = IF publishes(res) THEN "lock" ELSE "return"]
    /\ UNCHANGED <<ranges, ver, mu, loc, seqVars>>

\* case <-minute: the tick is taken
Tick ==
    /\ pc[Reloader] = "tickwait"
    /\ rl.n < MaxReloads
    /\ rl' = [n |-> rl.n + 1, res |-> NoLoad, err |-> "",
              before |-> ranges, verBefore |-> ver]
    /\ log' = Append(log, "reloading EvilIP data")
    /\ pc' = [pc EXCEPT ![Reloader] = "evilload"]
    /\ UNCHANGED <<ranges, ver, mu, loc, seqVars>>

\* ranges, err := loadEvilIP(evilipdb), and the branch on err
EvilLoad(res) ==
    /\ pc[Reloader] = "evilload"
    /\ rl' = [rl EXCEPT !.res = res, !.err = res.err]
    /\ log' = Append(log, IF res.err # "" THEN "failed to reload EvilIP data"
                                          ELSE "EvilIP data reloaded")
    /\ pc' = [pc EXCEPT ![Reloader] = IF publishes(res) THEN "lock" ELSE "tickwait"]
    /\ UNCHANGED <<ranges, ver, mu, loc, seqVars>>

\* ufis.Lock() / EvilIPs.Lock(), first half
ReloadLockBegin ==
    /\ pc[Reloader] = "lock"
    /\ CanLockBegin
    /\ mu' = [mu EXCEPT !.pending = Reloader]
    /\ pc' = [pc EXCEPT ![Reloader] = "lockwait"]
    /\ UNCHANGED <<ranges, ver, loc, rl, log, seqVars>>

\* ufis.Lock() / EvilIPs.Lock(), second half
ReloadLockAcquire ==
    /\ pc[Reloader] = "lockwait"
    /\ CanLockAcquire(Reloader)
    /\ mu' = [mu EXCEPT !.pending = NoProc, !.writer = Reloader]
    /\ pc' = [pc EXCEPT ![Reloader] = "assign"]
    /\ UNCHANGED <<ranges, ver, loc, rl, log, seqVars>>

\* a plausible slip: the new rows added to the published table in place
ReloadAssignMerging ==
    /\ pc[Reloader] = "assign"
    /\ ranges' = Slice(ranges.elems \o rl.res.ranges.elems)
    /\ ver' = ver + 1
    /\ pc' = [pc EXCEPT ![Reloader] = "unlock"]
    /\ UNCHANGED <<mu, loc, rl, log, seqVars>>

\* ufis.ranges = ranges / EvilIPs.ranges = ranges
ReloadAssign ==
    /\ pc[Reloader] = "assign"
    /\ ranges' = rl.res.ranges
    /\ ver' = ver + 1
    /\ pc' = [pc EXCEPT ![Reloader] = "unlock"]
    /\ UNCHANGED <<mu, loc, rl, log, seqVars>>

\* a plausible slip: the outcome logged before the lock is released
ReloadUnlockLogging ==
    /\ pc[Reloader] = "unlock"
    /\ mu' = [mu EXCEPT !.writer = NoProc]
    /\ log' = Append(log, "table replaced")
    /\ pc' = [pc EXCEPT ![Reloader] =
                 IF pc["L1"] # "off" THEN "return" ELSE "tickwait"]
    /\ UNCHANGED <<ranges, ver, loc, rl, seqVars>>

\* ufis.Unlock() / EvilIPs.Unlock()
ReloadUnlock ==
    /\ pc[Reloader] = "unlock"
    /\ mu' = [mu EXCEPT !.writer = NoProc]
    /\ pc' = [pc EXCEPT ![Reloader] =
                 IF pc["L1"] # "off" THEN "return" ELSE "tickwait"]
    /\ UNCHANGED <<ranges, ver, loc, rl, log, seqVars>>

\* loadDataFiles returns err to the SIGHUP branch, which logs the outcome
ReloadReturn ==
    /\ pc[Reloader] = "return"
    /\ log' = Append(log, IF rl.err # "" THEN "failed to load some data files"
                                         ELSE "All data files reloaded successfully")
    /\ rl' = [rl EXCEPT !.res = NoLoad]
    /\ pc' = [pc EXCEPT ![Reloader] = "sigwait"]
    /\ UNCHANGED <<ranges, ver, mu, loc, seqVars>>

NextConc ==
    \/ \E p \in Lookups : \E a \in AddrsOf(p) : LookupCall(p, a)
    \/ \E p \in Lookups : LookupRLock(p)
    \/ \E p \in Lookups : LookupNilCheck(p)
    \/ \E p \in Lookups : LookupLockBegin(p)
    \/ \E p \in Lookups : LookupLockAcquire(p)
    \/ \E p \in Lookups : LookupReadPtr(p)
    \/ \E p \in Lookups, t \in EvilInstants : LookupReadLen(p, t)
    \/ \E p \in Lookups : LookupRUnlock(p)
    \/ \E p \in Lookups : LookupUnlock(p)
    \/ Sighup
    \/ \E f \in UfiFiles : UfiLoad(f)
    \/ Tick
    \/ \E res \in EvilLoads : EvilLoad(res)
    \/ ReloadLockBegin
    \/ ReloadLockAcquire
    \/ ReloadAssign
    \/ ReloadUnlock
    \/ ReloadReturn

SpecConc ==
    (InitUfis \/ InitEvilIPs \/ InitOldEvilIPs \/ InitBadIPs) /\ [][NextConc]_vars

(* The same processes under the scheduling the Go runtime gives them.  A   *)
(* goroutine that can run does run.  Lock() queues behind the mutex's      *)
(* other writers and, the mutex turning to hand-over once a waiter has     *)
(* waited 1ms, is served; the waiters of RLock() are all released by the   *)
(* writer's Unlock() before another writer is let in.  So a step of a      *)
(* goroutine that is possible again and again is taken: strong fairness of *)
(* each goroutine's steps.  Nothing obliges a handler to call a lookup, a  *)
(* signal to arrive or the ticker to fire.                                 *)

\* the inputs of the fair runs: one address per index (for the EvilIP
\* tables the one above the only range of the first table, where the search
\* of the locked lookups crashes), one instant, a reload that fails and one
\* that succeeds
LiveAddrs(p) == IF p \in UfiLookups THEN {U32(0, 1)} ELSE {U32Inc(EvilBase)}
LiveInstants == {2}
LiveFiles == {MissingFile, FileOf(writeBinary(<<UfiEntry1, UfiEntry2>>))}
LiveLoads == {LoadError("query"), Loaded(<<EvilEntry1, EvilEntry2>>)}

InitLive ==
    \/ InitConc(UfiLookups, "sigwait", {Slice(<<UfiEntry1>>)})
    \/ InitConc(UnlockedEvilLookups, "tickwait", {Slice(<<EvilEntry1>>)})
    \/ InitConc(OldEvilLookups, "tickwait", {Slice(<<EvilEntry1>>)})
    \/ InitConc(BadLookups, "tickwait", {Slice(<<EvilEntry1>>)})

\* the steps of the lookup p once it has been called
LiveLookupStep(p) ==
    \/ LookupRLock(p)
    \/ LookupNilCheck(p)
    \/ LookupLockBegin(p)
    \/ LookupLockAcquire(p)
    \/ LookupReadPtr(p)
    \/ \E t \in LiveInstants : LookupReadLen(p, t)
    \/ LookupRUnlock(p)
    \/ LookupUnlock(p)

\* the steps of a reload once it has been triggered
LiveReloadStep ==
    \/ \E f \in LiveFiles : UfiLoad(f)
    \/ \E res \in LiveLoads : EvilLoad(res)
    \/ ReloadLockBegin
    \/ ReloadLockAcquire
    \/ ReloadAssign
    \/ ReloadUnlock
    \/ ReloadReturn

NextLive ==
    \/ \E p \in Lookups : \E a \in LiveAddrs(p) : LookupCall(p, a)
    \/ \E p \in Lookups : LiveLookupStep(p)
    \/ Sighup
    \/ Tick
    \/ LiveReloadStep

SpecConcFair ==
    /\ InitLive /\ [][NextLive]_vars
    /\ \A p \in Lookups : SF_vars(LiveLookupStep(p))
    /\ SF_vars(LiveReloadStep)

---------------------------------------------------------------------------
(* Claims about the flat and the sharded lookup (SpecLookup)               *)

\* the 0-based index of the first entry whose rangeTo is >= a, Len(r) if none
FirstToAtLeast(r, a) ==
    LET hits == {i \in 1..Len(r) : U32Le(a, r[i].rangeTo)}
    IN  IF hits = {} THEN Len(r)
        ELSE (CHOOSE i \in hits : \A j \in hits : i <= j) - 1

(* C1: on a table sorted ascending by `to` whose ranges are pairwise       *)
(* disjoint, ipRangeList.lookup(a) inspects the entry at the smallest      *)
(* index whose `to` is >= a, returns (that entry's value, true) exactly    *)
(* when some entry has from <= a <= to, and returns (0, false) otherwise.  *)
C1_LookupContract ==
    (lpc = "looked" /\ SortedByTo(tbl) /\ Disjoint(tbl)) =>
        /\ ~ret.panic
        /\ ret.idx = FirstToAtLeast(tbl, ip32)
        /\ ret.ok <=> \E i \in 1..Len(tbl) : Encloses(tbl[i], ip32)
        /\ ret.ok => /\ Encloses(tbl[ret.idx + 1], ip32)
                     /\ ret.data = tbl[ret.idx + 1].data
        /\ ~ret.ok => ret.data = 0

\* two ranges [A,B] and [C,D] with C > B+1, looked up at B+1: not found
C1_Witness ==
    /\ lpc = "looked" /\ Len(tbl) = 2 /\ SortedByTo(tbl) /\ Disjoint(tbl)
    /\ ip32 = U32Inc(tbl[1].rangeTo)
    /\ U32Lt(ip32, tbl[2].rangeFrom)
    /\ U32Lt(tbl[1].rangeFrom, tbl[1].rangeTo)
    /\ ret = Missing(1)

(* C8: for a sorted table of pairwise disjoint ranges (ranges straddling a *)
(* most-significant-byte boundary included) the sharded index returns for  *)
(* every address the same (value, found) pair as the flat table.           *)
C8_ShardFlatEquivalence ==
    (lpc = "slooked" /\ SortedByTo(tbl) /\ Disjoint(tbl)) =>
        LET flat == ipRangeListLookup(tbl, ip32)
        IN  /\ sret.ok = flat.ok
            /\ sret.data = flat.data
            /\ sret.panic = flat.panic

\* a range straddling the boundary between shards 0 and 1, found in shard 1
C8_Witness ==
    /\ lpc = "slooked" /\ SortedByTo(tbl) /\ Disjoint(tbl)
    /\ \E i \in 1..Len(tbl) :
          /\ shardKey(tbl[i].rangeFrom) < shardKey(tbl[i].rangeTo)
          /\ Encloses(tbl[i], ip32)
          /\ shardKey(ip32) # shardKey(tbl[i].rangeFrom)
    /\ sret.ok

---------------------------------------------------------------------------
(* Claims about the expiring lookup (SpecEvil)                             *)

(* C2: a lookup never fails: on every table, the empty one included, and   *)
(* for every address, one above every entry's `to` included, the lookups   *)
(* return found = false (evilIPList.lookup the empty string) and never     *)
(* abort the caller.                                                       *)
C2_LookupNeverFails ==
    /\ lpc = "looked" => ~ret.panic
    /\ epc = "badlooked" =>
          /\ ~bret.panic
          /\ (~\E i \in 1..Len(evil.elems) : Encloses(evil.elems[i], eip)) => ~bret.ok
    /\ epc = "evillooked" =>
          /\ ~eret.panic
          /\ (~\E i \in 1..Len(evil.elems) : Encloses(evil.elems[i], eip)) =>
                eret.status = ""

(* C9: on a sorted table of pairwise disjoint expiring entries,            *)
(* evilIPList.lookup(a) returns the status of the entry enclosing a when   *)
(* that entry expires strictly after the current time, and the empty       *)
(* string when no entry encloses a or the enclosing entry expired strictly *)
(* before the current time.                                                *)
C9_ExpiringLookup ==
    (epc = "evillooked" /\ SortedByTo(evil.elems) /\ Disjoint(evil.elems)) =>
        /\ \A i \in 1..Len(evil.elems) :
              Encloses(evil.elems[i], eip) =>
                 /\ evil.elems[i].data.expires > now =>
                       eret = EvilStatus(evil.elems[i].data.status)
                 /\ evil.elems[i].data.expires < now => eret = EvilStatus("")
        /\ (~\E i \in 1..Len(evil.elems) : Encloses(evil.elems[i], eip)) =>
              eret = EvilStatus("")

(* C10: the expiring lookup returns the empty string whenever              *)
(* now >= expires for the found entry: at now = expires the entry is       *)
(* already expired.                                                        *)
C10_ExpiredAtExpiry ==
    (epc = "evillooked" /\ SortedByTo(evil.elems) /\ Disjoint(evil.elems)) =>
        \A i \in 1..Len(evil.elems) :
            (Encloses(evil.elems[i], eip) /\ now >= evil.elems[i].data.expires) =>
                eret = EvilStatus("")

---------------------------------------------------------------------------
(* Claims about the binary codec (SpecCodec)                               *)

(* C3: loadIPRangesFromBinary applied to the bytes written by              *)
(* writeBinary(T) succeeds and returns a table of T's length whose i-th    *)
(* entry has the from, to and value of T's i-th entry, negative values     *)
(* included.                                                               *)
C3_RoundTrip ==
    cpc = "loaded" =>
        /\ dec.err = ""
        /\ ~dec.ranges.isNil
        /\ Len(dec.ranges.elems) = Len(ctbl)
        /\ \A i \in 1..Len(ctbl) :
              /\ dec.ranges.elems[i].rangeFrom = ctbl[i].rangeFrom
              /\ dec.ranges.elems[i].rangeTo = ctbl[i].rangeTo
              /\ dec.ranges.elems[i].data = ctbl[i].data

\* a table of two entries, one with a negative value and from # to, read back
C3_Witness ==
    /\ cpc = "loaded" /\ Len(ctbl) = 2
    /\ \E i \in 1..2 : ctbl[i].data < 0 /\ ctbl[i].rangeFrom # ctbl[i].rangeTo
    /\ Len(file) = 2 * Len(magicBytes) + 4 + 2 * ipRangeSize
    /\ dec = Loaded(ctbl)

---------------------------------------------------------------------------
(* Claims about lookups during a reload (SpecConc)                         *)

\* the versions of the published table a lookup has read
VersionsRead(p) == {loc[p].vNil, loc[p].vPtr, loc[p].vLen} \ {-1}

\* the lookup of p has its answer
Answered(p) == pc[p] \in {"runlock", "unlock", "done"} /\ loc[p].res # NoResult

(* C4: a lookup that runs while a reload publishes is answered entirely    *)
(* from the table published before the swap or entirely from the one       *)
(* published after it: all the reads of `ranges` behind one answer (the    *)
(* nil check, the slice's pointer, the slice's length) saw one table.      *)
C4_NoTornLookup ==
    \A p \in Lookups : Answered(p) => Cardinality(VersionsRead(p)) <= 1

\* what lookup(a) at the instant t returns on the table s, run alone
LookupAlone(p, s, a, t) ==
    IF p \in UfiLookups THEN ipRangeListLookup(s.elems, a)
    ELSE IF p \in BadLookups THEN badIPRangeListLookup(s.elems, a)
    ELSE IF p \in UnlockedEvilLookups THEN evilIPListLookup(s, a, t)
    ELSE IF s.isNil THEN EvilStatus("")
    ELSE evilStatusOf(mainIpRangeListLookup(s.elems, a), t)

FailureLines ==
    {"unable to load", "failed to load some data files", "failed to reload EvilIP data"}

(* C5: when loadIPRanges or loadEvilIP fails during a reload, the          *)
(* published table is left as it was before the reload, the failure is     *)
(* written to the log, and every lookup called afterwards (until the next  *)
(* reload) returns what the lookup returns on the table of before the      *)
(* reload.                                                                 *)
C5_FailedReloadLeavesTable ==
    FailedReload # 0 =>
        /\ ranges = rl.before
        /\ ver = rl.verBefore
        /\ log # <<>> /\ log[Len(log)] \in FailureLines
        /\ \A p \in Lookups :
              (pc[p] = "done" /\ loc[p].later = rl.n) =>
                  loc[p].res = LookupAlone(p, rl.before, loc[p].ip, loc[p].t)

\* the second SIGHUP finds a truncated file; a lookup called after that
\* reload has returned finds the entry the first reload published
C5_Witness ==
    /\ pc[Reloader] = "sigwait" /\ rl.n = 2 /\ rl.err = "truncated"
    /\ ver = 1
    /\ \E p \in UfiLookups :
          /\ pc[p] = "done" /\ loc[p].later = 2
          /\ loc[p].res = Found(UfiEntry1.data, 0)

\* the lookup of p waits in Lock or RLock, and what it waits for is a lookup
WaitsForLookup(p) ==
    \/ pc[p] \in {"rlock", "lock"} /\ (mu.writer \in Lookups \/ mu.pending \in Lookups)
    \/ pc[p] = "lockwait" /\ mu.readers \cap Lookups # {}

(* C6: concurrent lookups never block one another: a lookup that waits     *)
(* for the index's mutex waits for the reload goroutine's swap, never for  *)
(* another lookup.                                                         *)
C6_LookupsNeverWaitForLookups ==
    \A p \in Lookups : ~WaitsForLookup(p)

\* the next step of p reads the published `ranges` field
ReadsRanges(p) == pc[p] \in {"nilcheck", "read1", "read2"}

(* C7: every read of the published `ranges` field by a lookup (the nil     *)
(* check and the search of the expiring lookup included) happens while     *)
(* the lookup holds the index's lock, every assignment to it by a reload   *)
(* happens while the reload holds the lock for writing, and no lookup is   *)
(* reading `ranges` while a reload is assigning it.                        *)
C7_ReadsAndWritesUnderLock ==
    /\ \A p \in Lookups : ReadsRanges(p) => Holds(p)
    /\ pc[Reloader] = "assign" => mu.writer = Reloader
    /\ \A p \in Lookups : ~(ReadsRanges(p) /\ pc[Reloader] = "assign")

---------------------------------------------------------------------------
(* Claims about the files (SpecCodec, SpecFile)                            *)

\* the bytes of b that follow offset off, k of them or as many as there are
BytesAt(b, off, k) ==
    SubSeq(b, off + 1, IF Len(b) < off + k THEN Len(b) ELSE off + k)

\* no error and a table, or an error and no table
Refused(res) == res.err # "" /\ res.ranges.isNil

(* C11: loadIPRangesFromBinary returns an error and no table when the      *)
(* first 8 bytes of the stream are not the magic bytes, and when the 8     *)
(* bytes that follow the declared number of 12-byte records are not.       *)
C11_MagicChecked ==
    (cpc = "loaded" /\ fhist.loader = "binary") =>
        /\ BytesAt(file, 0, 8) # magicBytes => Refused(dec)
        /\ (Len(file) >= 12 /\ LEUint32(file, 8)[1] = 0) =>
              (BytesAt(file, 12 + 12 * LEUint32(file, 8)[2], 8) # magicBytes
                   => Refused(dec))

\* a file of two records whose footer has one byte changed: a format error
C11_Witness ==
    /\ cpc = "loaded" /\ fhist.loader = "binary" /\ fhist.writer = "binary"
    /\ Len(ctbl) = 2
    /\ fhist.damage = "flip" /\ fhist.at > Len(file) - 8
    /\ BytesAt(file, 0, 8) = magicBytes
    /\ dec = LoadError("format")

(* C12: for every table T and every strict prefix of the bytes written by  *)
(* writeBinary(T), loadIPRangesFromBinary returns an error and no table.   *)
C12_PrefixRefused ==
    (/\ cpc = "loaded" /\ fhist.loader = "binary"
     /\ fhist.writer = "binary" /\ fhist.damage = "cut") => Refused(dec)

\* a file of two records cut right after its records: the footer is missing
C12_Witness ==
    /\ cpc = "loaded" /\ fhist.loader = "binary" /\ fhist.writer = "binary"
    /\ Len(ctbl) = 2
    /\ fhist.damage = "cut" /\ fhist.at = 12 + 12 * Len(ctbl)
    /\ dec = LoadError("read")

\* the four bytes of b that follow offset off hold the 32-bit word u,
\* least significant byte first
HoldsLittleEndian(b, off, u) ==
    /\ u[2] = b[off + 1] + 256 * b[off + 2]
    /\ u[1] = b[off + 3] + 256 * b[off + 4]

\* the 32-bit word that is v in two's complement
TwosComplement(v) ==
    IF v >= 0 THEN U32(v \div Half, v % Half)
    ELSE U32(Half + (v \div Half), v % Half)

(* C13: for a table of n entries writeBinary emits exactly 20 + 12*n       *)
(* bytes: the 8-byte magic, n as a 4-byte little-endian count, for each    *)
(* entry in table order from, to and value as 4-byte little-endian words   *)
(* (value in two's complement), and the 8-byte magic again.                *)
C13_FileLayout ==
    (cpc = "written" /\ fhist.writer = "binary") =>
        LET n == Len(ctbl)
        IN  /\ Len(file) = 20 + 12 * n
            /\ \A k \in 1 .. Len(file) : file[k] \in Byte
            /\ BytesAt(file, 0, 8) = <<114, 103, 105, 112, 77, 97, 112, 0>>
            /\ HoldsLittleEndian(file, 8, U32(0, n))
            /\ \A i \in 1 .. n :
                  /\ HoldsLittleEndian(file, 12 * i, ctbl[i].rangeFrom)
                  /\ HoldsLittleEndian(file, 12 * i + 4, ctbl[i].rangeTo)
                  /\ HoldsLittleEndian(file, 12 * i + 8, TwosComplement(ctbl[i].data))
            /\ BytesAt(file, 12 + 12 * n, 8) = <<114, 103, 105, 112, 77, 97, 112, 0>>

\* two entries written, one with a negative value: 44 bytes
C13_Witness ==
    /\ cpc = "written" /\ fhist.writer = "binary"
    /\ Len(ctbl) = 2 /\ ctbl[1].data < 0 /\ ctbl[2].rangeFrom = EvilBase
    /\ Len(file) = 44

(* C14: the mapped loader returns an error and no table when the first 8   *)
(* bytes of the file, or its last 8 bytes, are not the magic bytes.        *)
C14_MappedMagicChecked ==
    (cpc = "loaded" /\ fhist.loader = "mmap") =>
        ((\/ BytesAt(file, 0, 8) # magicBytes
          \/ Len(file) < 8
          \/ BytesAt(file, Len(file) - 8, 8) # magicBytes) => Refused(dec))

(* C15: the mapped loader returns an error and no table whenever the       *)
(* number of bytes it reinterprets is not a multiple of the 12-byte record *)
(* size, and a table of exactly m entries when that number is 12*m.        *)
C15_MappedLength ==
    (cpc = "loaded" /\ fhist.loader = "mmap" /\ mmapMap(file) = "") =>
        /\ Len(file) % 12 # 0 => Refused(dec)
        /\ \A m \in 0 .. MaxFileLen :
              Len(file) = 12 * m =>
                  (dec.err = "" /\ ~dec.ranges.isNil /\ Len(dec.ranges.elems) = m)

\* a dump of two records that lost its last byte is refused, 23 not being a
\* multiple of 12
C15_Witness ==
    /\ cpc = "loaded" /\ fhist.loader = "mmap" /\ fhist.writer = "mmap"
    /\ fhist.damage = "cut" /\ Len(file) = 23
    /\ dec = LoadError("multiple")

(* C16: for every table T the file written by writeBinary(T) is accepted   *)
(* by loadIPRangesFromBinary and by mmapIpRanges, and both return T's      *)
(* entries in T's order.                                                   *)
C16_OneLayoutBothLoaders ==
    (cpc = "loaded" /\ fhist.writer = "binary" /\ fhist.damage = "none") =>
        dec = Loaded(ctbl)

(* C17: for every list of entries, mmapIpRanges applied to the file        *)
(* written by writeMmap returns, without error, a table of the same length *)
(* with the same entries.                                                  *)
C17_MmapRoundTrip ==
    (/\ cpc = "loaded" /\ fhist.writer = "mmap" /\ fhist.damage = "none"
     /\ fhist.loader = "mmap") =>
        dec = Loaded(ctbl)

\* the file was read by loadIPRangesFromCSV, which returned a table
CsvLoaded == kpc \in {"built", "looked"} /\ kby = "load" /\ kbuilt.err = ""

\* some field of some record is not a valid integer
MalformedField(rs) ==
    \E i \in 1 .. Len(rs) : \E j \in 1 .. Len(rs[i]) : Atoi(rs[i][j]).err # ""

BuiltBy(rs) ==
    CASE kby = "load"  -> {loadIPRangesFromCSV(rs)}
      [] kby = "later" -> {loadIpRangesFromCSV(rs)}
      [] OTHER         -> openIPRanges(rs)
LookedUp(t, a) ==
    CASE kby = "load"  -> ipRangesLookup(t, a)
      [] kby = "later" -> ipRangeListLookup(t, a)
      [] OTHER         -> lookupRange(a, t)

\* the orders of the records rs in which the entries ascend by `to`
Presorted(rs) ==
    {s \in OrdersOf(rs) : SortedByTo(loadIPRangesFromCSV(s).ranges.elems)}

(* C20: when the records of the file are pairwise disjoint entries         *)
(* `from,to,value`, in whatever order, the lookup of any address in the    *)
(* table built from the file returns what it returns in the table built    *)
(* from the same records in ascending order of `to`.                       *)
C20_SortBeforeUse ==
    (/\ kpc = "looked" /\ kbuilt.err = ""
     /\ Len(records) > 0 /\ Len(records[1]) = 3
     /\ Disjoint(kbuilt.ranges.elems)) =>
        \A s \in Presorted(records) : \A t \in BuiltBy(s) :
            kret = LookedUp(t.ranges.elems, kip)

\* the ranges of the loaded table that hold the address a
Enclosing(t, a) == {i \in 1 .. Len(t) : Encloses(t[i], a)}

(* C21: in a table built by loadEvilIP from any rows, rows whose ranges    *)
(* nest included, the lookup of an address returns the data of the         *)
(* smallest range that holds the address (a range held by every other     *)
(* range that holds it), and reports not-found exactly when no range holds *)
(* the address.                                                            *)
C21_SmallestEnclosing ==
    (dpc = "looked" /\ ~dbuilt.ranges.isNil) =>
        LET t == dbuilt.ranges.elems
            holders == Enclosing(t, dip)
        IN  /\ ~dret.panic
            /\ dret.ok <=> holders # {}
            /\ dret.ok =>
                  \E i \in holders :
                      /\ dret.data = t[i].data
                      /\ \A j \in holders :
                            U32Le(t[j].rangeFrom, t[i].rangeFrom)
                            /\ U32Le(t[i].rangeTo, t[j].rangeTo)

\* a - b in uint32 arithmetic
U32Minus(a, b) ==
    IF a[2] >= b[2] THEN U32((a[1] - b[1] + Half) % Half, a[2] - b[2])
    ELSE U32((a[1] - b[1] - 1 + 2 * Half) % Half, a[2] - b[2] + Half)

\* 2^k in uint32 arithmetic, for k in 0 .. 32
U32Pow2(k) ==
    IF k = 32 THEN U32Zero ELSE IF k < 16 THEN U32(0, 2^k) ELSE U32(2^(k - 16), 0)

\* ip with its low k bits cleared, and with them set, by division
LowCleared(ip, k) ==
    IF k <= 16 THEN U32(ip[1], ip[2] - (ip[2] % 2^k))
    ELSE U32(ip[1] - (ip[1] % 2^(k - 16)), 0)
LowSet(ip, k) ==
    IF k <= 16 THEN U32(ip[1], ip[2] - (ip[2] % 2^k) + 2^k - 1)
    ELSE U32(ip[1] - (ip[1] % 2^(k - 16)) + 2^(k - 16) - 1, Half - 1)

(* C22: for every ip and every subnet size s in 0..32, the range loadEvilIP *)
(* builds has from = ip with its low 32-s bits cleared and to = ip with     *)
(* them set, so that from <= ip <= to and to - from + 1 = 2^(32-s) in       *)
(* 32-bit arithmetic; s = 32 gives [ip, ip] and s = 0 gives [0, 2^32 - 1].  *)
C22_SubnetRange ==
    (dpc \in {"built", "looked"} /\ Len(drows) = 1) =>
        LET row == drows[1]
            e   == dbuilt.ranges.elems[1]
            k   == 32 - row.subnet
        IN  /\ e.rangeFrom = LowCleared(row.ip, k)
            /\ e.rangeTo = LowSet(row.ip, k)
            /\ U32Le(e.rangeFrom, row.ip) /\ U32Le(row.ip, e.rangeTo)
            /\ U32Inc(U32Minus(e.rangeTo, e.rangeFrom)) = U32Pow2(k)
            /\ row.subnet = 32 => (e.rangeFrom = row.ip /\ e.rangeTo = row.ip)
            /\ row.subnet = 0 => (e.rangeFrom = U32Zero /\ e.rangeTo = U32Max)

\* 23.25.93.129/0 gives the whole address space: the shift by 32 yields 0
\* and the decrement wraps
C22_Witness ==
    /\ dpc = "built" /\ Len(drows) = 1
    /\ drows[1].ip = EvilBase /\ drows[1].subnet = 0
    /\ dbuilt.ranges.elems[1].rangeFrom = U32Zero
    /\ dbuilt.ranges.elems[1].rangeTo = U32Max

\* the tables a load that succeeds returns
LoadedTables ==
    {loadIPRanges(f).ranges : f \in {g \in UfiFiles : loadIPRanges(g).err = ""}}
    \cup {l.ranges : l \in {m \in EvilLoads : m.err = ""}}

\* the reload goroutine holds the write lock
ReloadHoldsLock == mu.writer = Reloader

(* C23: in every reload path the replacement table is completely built     *)
(* (read, parsed, sorted) before the write lock is asked for, and while the *)
(* write lock is held the reload goroutine does nothing but assign the new  *)
(* table: it loads nothing and logs nothing, and the published table        *)
(* changes only to the table it built.                                      *)
C23_BuiltBeforeLock ==
    /\ [](pc[Reloader] \in {"lock", "lockwait", "assign"} =>
              (rl.res.err = "" /\ rl.res.ranges \in LoadedTables))
    /\ [](ReloadHoldsLock => pc[Reloader] \in {"assign", "unlock"})
    /\ [][ReloadHoldsLock =>
             /\ rl' = rl
             /\ log' = log
             /\ (ranges' = ranges \/ ranges' = rl.res.ranges)]_vars

\* the reload goroutine holds the lock and has assigned the table it built
C23_Witness ==
    /\ ReloadHoldsLock /\ pc[Reloader] = "unlock"
    /\ ver = rl.verBefore + 1
    /\ ranges = rl.res.ranges /\ ranges # rl.before

(* C24: the published table is at every state the table main published or  *)
(* the complete result of one load that succeeded, and it changes only by   *)
(* the reload goroutine's assignment of such a result: no lookup, whether   *)
(* or not it finds an expired entry, and no failed reload changes it.       *)
C24_WholeTableReplacement ==
    /\ [](ranges = NilSlice \/ ranges \in LoadedTables)
    /\ [][ranges' # ranges =>
             /\ pc[Reloader] = "assign" /\ pc'[Reloader] = "unlock"
             /\ rl.res.err = ""
             /\ ranges' = rl.res.ranges]_vars
    /\ [](FailedReload # 0 => ranges = rl.before)

\* the table holds an entry that a lookup has found expired, after a reload
\* that replaced the table
C24_Witness ==
    /\ ver = 1 /\ pc[Reloader] = "tickwait"
    /\ ranges = Slice(<<EvilEntry1, EvilEntry2>>)
    /\ pc["E"] = "done" /\ loc["E"].vLen = 1 /\ loc["E"].t = 2
    /\ loc["E"].res = EvilStatus("")

\* the lookup of p has started and has not ended
LookupRunning(p) == pc[p] \notin {"off", "idle", "done"}
\* the reload goroutine has a table to publish and has not released the lock
SwapRunning == pc[Reloader] \in {"lock", "lockwait", "assign", "unlock"}

(* C26: under fair scheduling every lookup that has started ends (its      *)
(* deferred unlock has run, on the path of a found, a missing and a        *)
(* crashed search alike) and every swap that has started completes: no     *)
(* lookup and no reload waits for the index lock for ever, however lookups *)
(* and reloads interleave.                                                 *)
C26_LocksAlwaysReleased ==
    /\ \A p \in Lookups : LookupRunning(p) ~> pc[p] = "done"
    /\ SwapRunning ~> ~SwapRunning

\* the search of B1 has crashed under the lock, the lock was released on
\* the way out, and B2, which waited for it, holds it
C26_Witness ==
    /\ pc["B1"] = "done" /\ loc["B1"].res.panic
    /\ mu.writer = "B2"

\* the loads of the data files and of the EvilIP table in progress
MainLoadsData == mpc = "load"
MainLoadsEvil == mpc = "evil"
GoLoadsData   == gpc = "reload"
GoLoadsEvil   == gpc = "evil"

\* C25: at most one reload of a given index is in progress at any time: the
\* initial load has finished before the reload goroutine starts, and the
\* SIGHUP reload and the one-minute EvilIP reload run one after the other in
\* the single goroutine, so two assignments to one table never overlap
C25_OneReloadAtATime ==
    /\ gpc # "off" => mpc = "serve"
    /\ ~(MainLoadsData /\ GoLoadsData)
    /\ ~(MainLoadsEvil /\ GoLoadsEvil)
    /\ ~(GoLoadsData /\ GoLoadsEvil)

\* the goroutine reloads the EvilIP table after a SIGHUP reload, main serving
C25_Witness ==
    mvar = "selectEvil" /\ mpc = "serve" /\ GoLoadsEvil /\ sh.started >= 1

\* C29: with the channel of capacity 1, a SIGHUP delivered during a reload
\* is not lost (a further reload starts once the current one is over), and
\* however many SIGHUPs arrive during one reload, they cause at most one
\* further reload
C29_SighupDuringReload ==
    /\ [](mvar = "buffered" => \A k \in 1 .. MaxSignals : sh.caused[k] <= 1)
    /\ \A k \in 1 .. MaxSignals :
          (mvar = "buffered" /\ sh.during[k] > 0) ~> (sh.caused[k] = 1)

\* two SIGHUPs arrived during the first reload and one further reload began
C29_Witness ==
    /\ mvar = "buffered" /\ sh.during[1] = 2
    /\ sh.caused[1] = 1 /\ sh.started = 2 /\ gpc = "reload"

\* the sources whose load the last call attempted and saw fail
FailedSources == {s \in SourceSet : attempts(fcfg, s) /\ ~fout[s]}

\* C27: loadDataFiles treats its sources independently: a source whose load
\* fails keeps what it published, every other attempted source is replaced
\* all the same, and the error returned is non-nil exactly when at least
\* one source failed
C27_SourcesIndependent ==
    fcalls > 0 =>
        /\ \A s \in SourceSet :
              fpub[s] = IF attempts(fcfg, s) /\ fout[s] THEN fcalls ELSE fprev[s]
        /\ (ferr # NilError) <=> (FailedSources # {})

\* a second call in which the net-speed database fails after the city
\* database loaded, and the ISP database and the UFI index load after it
C27_Witness ==
    /\ fcalls = 2 /\ ~fcfg.lite /\ fcfg.ufi
    /\ FailedSources = {"gspeed"}
    /\ fprev["gspeed"] = 1 /\ fpub["gspeed"] = 1
    /\ fpub["gcity"] = 2 /\ fpub["gisp"] = 2 /\ fpub["ufis"] = 2
    /\ ferr = "gspeed"

\* the records are all `to,value` with valid integers, and `to` starts at
\* 0 or above and strictly increases
TwoFieldIncreasing(rs) ==
    /\ rs # <<>>
    /\ \A i \in 1 .. Len(rs) :
          /\ Len(rs[i]) = 2
          /\ Atoi(rs[i][1]).err = "" /\ Atoi(rs[i][2]).err = ""
          /\ Atoi(rs[i][1]).val >= 0
    /\ \A i \in 1 .. Len(rs) - 1 : Atoi(rs[i][1]).val < Atoi(rs[i + 1][1]).val

\* the ranges follow one another from address 0 on, leaving no gap
Contiguous(t) ==
    /\ t[1].rangeFrom = U32Zero
    /\ \A i \in 1 .. Len(t) - 1 : t[i + 1].rangeFrom = U32Inc(t[i].rangeTo)

\* C28: from a two-field CSV file whose `to` values strictly increase, the
\* later loader returns a table sorted by `to`, of pairwise disjoint ranges
\* with from <= to, starting at address 0 and leaving no gap; the lookup
\* finds every address from 0 to the last `to`, and none above
C28_TwoFieldTableCovers ==
    (kby = "later" /\ TwoFieldIncreasing(records)) =>
        /\ kbuilt.err = "" /\ kpub = kbuilt.ranges
        /\ LET t == kpub.elems
           IN  /\ Len(t) = Len(records)
               /\ SortedByTo(t) /\ Disjoint(t) /\ Contiguous(t)
               /\ \A a \in CsvAddrs :
                     ipRangeListLookup(t, a).ok <=> U32Le(a, t[Len(t)].rangeTo)
               /\ kpc = "looked" =>
                     /\ kret.ok <=> U32Le(kip, t[Len(t)].rangeTo)
                     /\ kret.ok => /\ U32Le(t[kret.idx + 1].rangeFrom, kip)
                                   /\ U32Le(kip, t[kret.idx + 1].rangeTo)

\* the file 4,-7 / 12,-7 loaded and address 5 found in the second range
C28_Witness ==
    /\ kpc = "looked" /\ kby = "later" /\ TwoFieldIncreasing(records)
    /\ Len(records) = 2 /\ kip = U32(0, 5)
    /\ kret.ok /\ kret.idx = 1 /\ kret.data = -7

\* the text parses to an address that is not IPv4
ParsesNotIPv4(text) == ~ParseIP(text).isNil /\ To4(ParseIP(text)).isNil

\* C30: lookupIPInfo consults the UFI index only with the 32-bit form of an
\* IPv4 address: for a text that parses but is not IPv4, the index is not
\* searched, no entry's value is reported, and GuessedUFI stays 0
C30_OnlyIPv4Consulted ==
    (ipc = "done" /\ ParsesNotIPv4(itext)) =>
        /\ iret.consulted = {}
        /\ iret.GuessedUFI = 0
        /\ ~iret.panic

=============================================================================
